---- MODULE Spec2Model ----
(***************************************************************************)
(* Model of the lot ledger (PaymentTracker), the profit account            *)
(* (ProfitTracker) and the scheduled buy/sell actions of the unified       *)
(* trader (UnifiedTradingSystem, BTCBuyingSystem, CoinbaseTrader).         *)
(*                                                                         *)
(* Units.  BTC amounts are whole numbers of 1e-8 BTC, so the dust          *)
(* threshold 0.00000001 of cleanupPaymentsAfterSale is 1.  GBP amounts     *)
(* and prices are whole numbers of an arbitrary money unit.                *)
(***************************************************************************)
EXTENDS Integers, Sequences, FiniteSets, TLC

\* ------------------------------------------------------------------ bounds
\* Ledger: lots recorded, BTC of one purchase (in 1e-8 BTC), GBP of one
\* purchase, and the sale price of a lot.
MaxLots == 2
MaxBtc == 3
MaxGbp == 2
MaxPrice == 1
\* Profit account: snapshots and trades recorded (together), and the GBP and
\* BTC balances an exchange reports.
MaxRecords == 3
MaxFiat == 2
MaxHolding == 1
\* The GBP balance of a snapshot handed to recordBalance.
MaxSnapshotGbp == 3
\* Trader: purchases and trades logged.
MaxOrders == 1
\* Decision engine: the highest price quoted, the polling cycles analysed, and
\* the time that passes after start-up (in cooldown periods).
MaxQuote == 5
MaxCycles == 2
MaxElapsed == 1
\* Timing controller: the actions handed to scheduleAction, and the highest
\* price in their price data.
MaxActions == 2
MaxJump == 2
\* Polling loop: the longest interval and gap configured, the cycles that can
\* be in progress together, and the last time of the clock.
MaxInterval == 2
MaxOverlap == 2
MaxPollTime == 4
\* Delayed trades: the cooldown periods that pass after start-up.
MaxWait == 3
\* Threshold alerts: the analyses that can be in progress together, and the
\* last time of the clock, in alert cooldowns' unit of time.
MaxAnalyses == 2
MaxAlertTime == 3

\* ------------------------------------------------------- program constants
\* payment-tracker.js:164  `partialAmount > 0.00000001`
Dust == 1
\* profit-tracker.js:387  the placeholder price of getCurrentBtcPrice, in money
\* units per BTC unit of the profit account
PlaceholderBtcPrice == 2
\* profit-tracker.js:25,26  fixedMilestoneIncrement and staticMilestoneAmount
\* (10 pounds: the money unit of the profit account is 5 pounds)
FixedMilestoneIncrement == 2
StaticMilestoneAmount == 2
\* profit-tracker.js:21  profitMilestones, a configured ascending list
ProfitMilestones == <<2, 3>>

\* The configuration of the decision engine, scaled down: prices in price
\* units, money in units of the fixed withdrawal fee, time in units of the
\* cooldown between trades, percentages as they are.
\* part_010:20-24  buying.priceThreshold, percentageDrop, maxBuyAmount,
\* maxDailyBuying, postSellDropThreshold
BuyPriceThreshold == 1
PercentageDrop == 50
MaxBuyAmount == 1
MaxDailyBuying == 2
PostSellDropThreshold == 1
\* btc-buyer.js:25,33,34  minimumGapBetweenBuys, minAccountBalance, maxBtcHolding
MinimumGapBetweenBuys == 2
MinAccountBalance == 1
MaxBtcHolding == 1
\* btc-buyer.js:402  the default of maxDailyTrades in checkBuyingConditions
MaxDailyBuyTrades == 5
\* btc-buyer.js:59  strategy.supportLevels
SupportLevels == {3}
\* part_010:30,31,36,37  selling.priceThreshold, percentageGain, profitTarget,
\* btcProfitTarget
SellPriceThreshold == 5
PercentageGain == 100
ProfitTarget == 1
BtcProfitTarget == 1
\* part_010:32  selling.maxSellAmount, in units of the BTC holding
MaxSellAmount == 1
\* part_010:46  strategy.stopLossPercent
StopLossPercent == 50
\* part_010:75,76  safety.maxDailyTrades, cooldownBetweenTrades
MaxDailyTrades == 2
CooldownBetweenTrades == 1
\* part_010:709-711  taker fee plus spread, 0.005 + 0.0025 = 3/400 of the
\* value, and the fixed withdrawal fee
FeeNumerator == 3
FeeDenominator == 400
WithdrawalFee == 1
\* part_010:731  initialBtcValue
InitialBtcValue == 1

\* The calendar of the timing controller, scaled down: a day of 3 hours, of
\* which the middle one is the trading window.
\* timing-controller.js:51,64  getHours() and getDay()
HoursPerDay == 3
DaysPerWeek == 7
\* timing-controller.js:16,17  tradingHours.start and tradingHours.end
TradingHoursStart == 1
TradingHoursEnd == 2
\* timing-controller.js:27  emergencyOverride.priceJumpThreshold, in percent
PriceJumpThreshold == 15
\* timing-controller.js:245  the delay of the reschedule, in hours
RescheduleDelay == 1
\* timing-controller.js:200-203  totalDelay, 5 to 90 minutes: the timer runs
\* within the hour or in the next one
ScheduleDelays == {0, 1}
\* timing-controller.js:10,11,36,37  randomDelay and hesitation delay, in
\* cooldown periods: the timer of a trade runs one period later, or more
ActionDelays == {1, 2}
\* The thresholds of telegram-config.json (manage-thresholds.js:96,135), one of
\* each kind, in price units, and their cooldown (part_010:258), in units of
\* time
DropThresholds == {2}
RiseThresholds == {4}
AlertCooldown == 2
\* part_010:51  monitoring.interval, the base of the short-period polling; the
\* random factor 0.8 to 1.2 leaves it within the same unit of time
MonitoringInterval == 1

\* The decrease of the BTC balance (0.00001 BTC) that analyzeTradingOpportunity
\* takes for noise: one unit of the account's balance.
BalanceDecreaseThreshold == 1

VARIABLES
  payments,       \* PaymentTracker.payments: the lots, in insertion order
  now,            \* the wall clock read by new Date(); it advances between recordings
  profitTracker,  \* a ProfitTracker: baseline, balance history, profit history
  snapshotsOnly,  \* no call but recordBalance has reached profitTracker since it was empty
  buyingHistory,  \* BTCBuyingSystem.buyingHistory: the purchases logged
  tradingHistory, \* CoinbaseTrader.tradingHistory: the trades logged
  buyerTracker,   \* BTCBuyingSystem.profitTracker
  sellerTracker,  \* CoinbaseTrader.profitTracker
  buyer,          \* BTCBuyingSystem: lastSellPrice, recentHigh, lastBuyTime
  system,         \* UnifiedTradingSystem: lastTradeTime, recentHigh, recentLow, ...
  exchange,       \* the account at the exchange: its GBP and BTC balances
  config,         \* the switches of the configuration the system was built with
  calendar,       \* the hour of the week that new Date() reads in the timing controller
  controller,     \* TimingController: config, lastRecordedPrice, pendingActions
  timers,         \* the setTimeout callbacks not yet run
  observed,       \* the action ids issued, run, deferred and cancelled so far
  poller,         \* the polling loop: monitoring, lastCheckTime, its timer, the cycles running
  scheduled,      \* the buy and sell actions the timing controller holds for later
  alerts,         \* thresholdAlertHistory, its cooldown timers and the analyses checking alerts
  trading,        \* config.dryRun of the buyer and of the seller, and the requests sent to POST /orders
  balanceFile,    \* data/balance-history.json: the balance history last written by a ProfitTracker
  lastCall        \* the most recent operation, its argument and its outcome

ledgerVars == <<payments, now>>
profitVars == <<profitTracker, snapshotsOnly>>
traderVars == <<buyingHistory, tradingHistory, buyerTracker, sellerTracker>>
decisionVars == <<buyer, system, exchange, config>>
timingVars == <<calendar, controller, timers, observed>>
automationVars == <<poller, scheduled, alerts>>
engineVars == <<decisionVars, timingVars, automationVars>>
hostVars == <<trading, balanceFile>>
vars == <<payments, now, profitTracker, snapshotsOnly,
          buyingHistory, tradingHistory, buyerTracker, sellerTracker,
          buyer, system, exchange, config,
          calendar, controller, timers, observed,
          poller, scheduled, alerts, trading, balanceFile, lastCall>>

\* ------------------------------------------------------------------ helpers
Min(a, b) == IF a <= b THEN a ELSE b

\* A record of a call: the operation, its argument, whether it returned
\* normally, what it returned or computed, and whether it repeats the call
\* before it (same operation, same argument).
Call(op, arg, ok, result) ==
  [op |-> op, arg |-> arg, ok |-> ok, result |-> result, again |-> FALSE]

\* Sums over the lots whose status is one of statuses, from position i on.
RECURSIVE SumBtc(_, _, _)
SumBtc(ps, statuses, i) ==
  IF i > Len(ps) THEN 0
  ELSE (IF ps[i].status \in statuses THEN ps[i].btcAmount ELSE 0)
       + SumBtc(ps, statuses, i + 1)

RECURSIVE SumGbp(_, _, _)
SumGbp(ps, statuses, i) ==
  IF i > Len(ps) THEN 0
  ELSE (IF ps[i].status \in statuses THEN ps[i].gbpAmount ELSE 0)
       + SumGbp(ps, statuses, i + 1)

\* The BTC held according to the ledger (the active and partial lots), the BTC
\* of the active lots, and what the active lots cost.
TotalLive(ps) == SumBtc(ps, {"active", "partial"}, 1)
TotalActive(ps) == SumBtc(ps, {"active"}, 1)
TotalActiveCost(ps) == SumGbp(ps, {"active"}, 1)

\* The balances an exchange can report against a ledger: from nothing to more
\* than the ledger holds (every larger balance acts like the ledger's total
\* plus one: nothing is left to attribute).
Balances(ps) == 0 .. (TotalLive(ps) + 1)

\* ----------------------------------------------------------- PaymentTracker
\* generatePaymentId: ids are unique; the model numbers the lots as recorded.
GeneratePaymentId(ps) == Len(ps) + 1

\* recordPayment: append a lot with status active, stamped with the clock.
RecordPaymentOp(ps, ts, gbpAmount, btcAmount) ==
  Append(ps, [id        |-> GeneratePaymentId(ps),
              timestamp |-> ts,
              gbpAmount |-> gbpAmount,
              btcAmount |-> btcAmount,
              status    |-> "active",
              soldPrice |-> 0,
              profit    |-> 0])

\* payments.filter(p => p.status === 'active'), as positions in payments.
ActiveIdx(ps) == {i \in 1 .. Len(ps) : ps[i].status = "active"}

\* The comparator of activePayments.sort: oldest timestamp first; the sort is
\* stable, so lots with equal timestamps keep their insertion order.
OlderThan(ps, i, j) ==
  \/ ps[i].timestamp < ps[j].timestamp
  \/ ps[i].timestamp = ps[j].timestamp /\ i < j

\* A variant of the sort that puts the newest lot first.
SortedActiveNewestFirst(ps) ==
  LET S == ActiveIdx(ps)
  IN  [k \in 1 .. Cardinality(S) |->
         CHOOSE i \in S : Cardinality({j \in S : OlderThan(ps, i, j)}) = k - 1]

\* activePayments after the sort: positions of the active lots, oldest first.
SortedActive(ps) ==
  LET S == ActiveIdx(ps)
  IN  [k \in 1 .. Cardinality(S) |->
         CHOOSE i \in S : Cardinality({j \in S : OlderThan(ps, j, i)}) = k - 1]

\* A variant of the step below that marks no lot.
ConsumeNothing(ps, order, k) == ps

\* remainingPayments.forEach(p => p.status = 'consumed') from position k on.
RECURSIVE ConsumeFrom(_, _, _)
ConsumeFrom(ps, order, k) ==
  IF k > Len(order) THEN ps
  ELSE ConsumeFrom([ps EXCEPT ![order[k]].status = "consumed"], order, k + 1)

\* A variant of the boundary step that marks the lot consumed whatever the
\* leftover.
TruncateLotAlwaysConsumed(ps, i, partialAmount) ==
  [ps EXCEPT ![i].status = "consumed"]

\* The boundary lot: truncated to the leftover and marked partial, or marked
\* consumed when the leftover is dust.
TruncateLot(ps, i, partialAmount) ==
  IF partialAmount > Dust
    THEN [ps EXCEPT ![i].btcAmount = partialAmount, ![i].status = "partial"]
    ELSE [ps EXCEPT ![i].status = "consumed"]

\* A variant of the loop that stops at the boundary lot and leaves the lots
\* after it as they are.
RECURSIVE CleanupWalkStoppingAtBoundary(_, _, _, _, _)
CleanupWalkStoppingAtBoundary(ps, order, k, runningTotal, remaining) ==
  IF k > Len(order) THEN ps
  ELSE LET i == order[k]
       IN  IF runningTotal + ps[i].btcAmount <= remaining
             THEN CleanupWalkStoppingAtBoundary(ps, order, k + 1,
                                                runningTotal + ps[i].btcAmount, remaining)
             ELSE IF remaining - runningTotal > Dust
               THEN [ps EXCEPT ![i].btcAmount = remaining - runningTotal,
                               ![i].status = "partial"]
               ELSE [ps EXCEPT ![i].status = "consumed"]

\* A variant of the loop that keeps a lot only while the running total stays
\* below the balance.
RECURSIVE CleanupWalkBelowBalance(_, _, _, _, _)
CleanupWalkBelowBalance(ps, order, k, runningTotal, remaining) ==
  IF k > Len(order) THEN ps
  ELSE LET i == order[k]
       IN  IF runningTotal + ps[i].btcAmount < remaining
             THEN CleanupWalkBelowBalance(ps, order, k + 1,
                                          runningTotal + ps[i].btcAmount, remaining)
             ELSE ConsumeFrom(TruncateLot(ps, i, remaining - runningTotal),
                              order, k + 1)

\* The for loop over the sorted active lots, from position k with runningTotal.
RECURSIVE CleanupWalk(_, _, _, _, _)
CleanupWalk(ps, order, k, runningTotal, remaining) ==
  IF k > Len(order) THEN ps
  ELSE LET i == order[k]
       IN  IF runningTotal + ps[i].btcAmount <= remaining
             THEN CleanupWalk(ps, order, k + 1,
                              runningTotal + ps[i].btcAmount, remaining)
             ELSE ConsumeFrom(TruncateLot(ps, i, remaining - runningTotal),
                              order, k + 1)

\* A variant of cleanupPaymentsAfterSale that, with nothing left, marks every
\* lot consumed, whatever its status.
CleanupConsumingEveryLot(ps, remaining) ==
  IF remaining <= 0
    THEN [i \in 1 .. Len(ps) |-> [ps[i] EXCEPT !.status = "consumed"]]
    ELSE CleanupWalk(ps, SortedActive(ps), 1, 0, remaining)

\* cleanupPaymentsAfterSale(remainingBtcBalance)
CleanupPaymentsAfterSaleOp(ps, remaining) ==
  IF remaining <= 0
    THEN [i \in 1 .. Len(ps) |->
            IF ps[i].status = "active"
              THEN [ps[i] EXCEPT !.status = "consumed"] ELSE ps[i]]
    ELSE CleanupWalk(ps, SortedActive(ps), 1, 0, remaining)

\* A variant of the search that matches the id alone.
FindWhateverStatus(ps, paymentId) ==
  LET M == {i \in 1 .. Len(ps) : ps[i].id = paymentId}
  IN  IF M = {} THEN 0 ELSE CHOOSE i \in M : \A j \in M : i <= j

\* payments.find(p => p.id === paymentId && p.status === 'active'): the
\* position of the first match, 0 when there is none.
FindActive(ps, paymentId) ==
  LET M == {i \in 1 .. Len(ps) : ps[i].id = paymentId /\ ps[i].status = "active"}
  IN  IF M = {} THEN 0 ELSE CHOOSE i \in M : \A j \in M : i <= j

\* sellIndividualPayment on a lot that was found.
SellLot(ps, i, price) ==
  [ps EXCEPT ![i].status = "sold",
             ![i].soldPrice = price,
             ![i].profit = ps[i].btcAmount * price - ps[i].gbpAmount]

\* A variant of the cost-basis loop that attributes the whole sale to the
\* first active lot.
RECURSIVE CostBasisOfFirstLot(_, _, _)
CostBasisOfFirstLot(ps, i, remainingSellAmount) ==
  IF i > Len(ps) THEN 0
  ELSE IF ps[i].status # "active" THEN CostBasisOfFirstLot(ps, i + 1, remainingSellAmount)
  ELSE IF remainingSellAmount <= 0 THEN 0
  ELSE (Min(remainingSellAmount, ps[i].btcAmount) * ps[i].gbpAmount) \div ps[i].btcAmount

\* The FIFO cost-basis loop of executeAutomatedTrading over the active lots in
\* array order, from position i with remainingSellAmount still to attribute.
\* (sellFromThisPayment / btcAmount) * gbpAmount is exact for a whole lot and
\* rounded down to the money unit for a part of one.
RECURSIVE CostBasisWalk(_, _, _)
CostBasisWalk(ps, i, remainingSellAmount) ==
  IF i > Len(ps) THEN 0
  ELSE IF ps[i].status # "active" THEN CostBasisWalk(ps, i + 1, remainingSellAmount)
  ELSE IF remainingSellAmount <= 0 THEN 0
  ELSE LET sellFromThisPayment == Min(remainingSellAmount, ps[i].btcAmount)
       IN  (sellFromThisPayment * ps[i].gbpAmount) \div ps[i].btcAmount
           + CostBasisWalk(ps, i + 1, remainingSellAmount - sellFromThisPayment)

ActualCostBasis(ps, sellAmount) == CostBasisWalk(ps, 1, sellAmount)

\* ------------------------------------------------------------ ledger actions
RecordPayment ==
  /\ Len(payments) < MaxLots
  /\ \E gbpAmount \in 1 .. MaxGbp, btcAmount \in 1 .. MaxBtc :
       /\ payments' = RecordPaymentOp(payments, now, gbpAmount, btcAmount)
       /\ lastCall' = Call("recordPayment", btcAmount, TRUE, Len(payments) + 1)
  /\ now' = now + 1
  /\ UNCHANGED <<profitVars, traderVars, engineVars, hostVars>>

CleanupPaymentsAfterSale ==
  /\ \E remaining \in Balances(payments) :
       /\ payments' = CleanupPaymentsAfterSaleOp(payments, remaining)
       /\ lastCall' = [Call("cleanup", remaining, TRUE, Cardinality(ActiveIdx(payments)))
                         EXCEPT !.again = (lastCall.op = "cleanup"
                                           /\ lastCall.arg = remaining)]
  /\ UNCHANGED <<now, profitVars, traderVars, engineVars, hostVars>>

SellIndividualPayment ==
  /\ \E paymentId \in 1 .. MaxLots, price \in 1 .. MaxPrice :
       LET i == FindActive(payments, paymentId)
       IN  IF i = 0
             THEN /\ payments' = payments
                  /\ lastCall' = Call("sell", paymentId, FALSE, 0)
             ELSE /\ payments' = SellLot(payments, i, price)
                  /\ lastCall' = Call("sell", paymentId, TRUE, price)
  /\ UNCHANGED <<now, profitVars, traderVars, engineVars, hostVars>>

SellAnalysis ==
  /\ \E sellAmount \in Balances(payments) :
       lastCall' = Call("costBasis", sellAmount, TRUE,
                        ActualCostBasis(payments, sellAmount))
  /\ UNCHANGED <<ledgerVars, profitVars, traderVars, engineVars, hostVars>>

\* The running total of the loop once it has passed lot i: the amounts of the
\* active lots that are lot i or come before it in oldest-first order.
RECURSIVE RunningTotalThrough(_, _, _)
RunningTotalThrough(ps, i, j) ==
  IF j > Len(ps) THEN 0
  ELSE (IF ps[j].status = "active" /\ (j = i \/ OlderThan(ps, j, i))
          THEN ps[j].btcAmount ELSE 0)
       + RunningTotalThrough(ps, i, j + 1)

\* A step of cleanupPaymentsAfterSale, as the call record shows it.
CleanupStep == lastCall'.op = "cleanup"

\* ------------------------------------------------------------ ProfitTracker
MilestoneModes == {"progressive", "fixed", "static"}

\* config.initialBalance is null or a number; the model holds it as a set, empty
\* for null.  `!initialBalance` is true of null and of 0.
NoBalance == {}
Truthy(b) == b # {} /\ b # {0}
ValueOf(b) == CHOOSE v \in b : TRUE

\* The constructor, with no data files to load and every alert enabled.
NewTracker(mode) ==
  [initialBalance |-> NoBalance,
   balanceHistory |-> <<>>,
   profitHistory  |-> <<>>,
   milestoneMode  |-> mode]

\* getEstimatedBuyPrice: 95% of the placeholder price, to the money unit.
GetEstimatedBuyPrice == (PlaceholderBtcPrice * 95) \div 100

\* The entries of profitHistory.  A milestone record has no runningProfit and a
\* trade record no milestone: the absent field is held as 0 and never read.
TradeRecord(profitLoss, runningProfit) ==
  [type |-> "trade", milestone |-> 0,
   profitLoss |-> profitLoss, runningProfit |-> runningProfit]
MilestoneRecord(milestone) ==
  [type |-> "milestone", milestone |-> milestone,
   profitLoss |-> 0, runningProfit |-> 0]

\* A variant of hasMilestoneBeenReached that remembers nothing.
HasMilestoneNeverReached(t, milestone) == FALSE

\* hasMilestoneBeenReached
HasMilestoneBeenReached(t, milestone) ==
  \E i \in 1 .. Len(t.profitHistory) :
    /\ t.profitHistory[i].type = "milestone"
    /\ t.profitHistory[i].milestone = milestone

\* recordMilestone
RecordMilestone(t, milestone) ==
  [t EXCEPT !.profitHistory = Append(@, MilestoneRecord(milestone))]

\* calculateRunningProfit (getCurrentProfit)
CalculateRunningProfit(t) ==
  IF ~Truthy(t.initialBalance) THEN 0
  ELSE IF Len(t.balanceHistory) > 0
    THEN t.balanceHistory[Len(t.balanceHistory)].totalBalance - ValueOf(t.initialBalance)
    ELSE 0

\* checkProfitThreshold, fixed mode: the increment level reached, once.
CheckFixed(t, currentProfit) ==
  LET currentMilestone ==
        (currentProfit \div FixedMilestoneIncrement) * FixedMilestoneIncrement
  IN  IF currentProfit > 0 /\ currentMilestone > 0
         /\ ~HasMilestoneBeenReached(t, currentMilestone)
        THEN RecordMilestone(t, currentMilestone)
        ELSE t

\* checkProfitThreshold, static mode.  wasAboveThreshold reads runningProfit of
\* the last entry of profitHistory: undefined (so not >=) on a milestone record.
WasAboveThreshold(t) ==
  /\ Len(t.profitHistory) > 0
  /\ LET lastRecord == t.profitHistory[Len(t.profitHistory)]
     IN  /\ lastRecord.type = "trade"
         /\ lastRecord.runningProfit >= StaticMilestoneAmount

CheckStatic(t, currentProfit) ==
  IF currentProfit >= StaticMilestoneAmount /\ ~WasAboveThreshold(t)
    THEN RecordMilestone(t, StaticMilestoneAmount)
    ELSE t

\* checkProfitThreshold, progressive mode: the for loop over profitMilestones.
RECURSIVE CheckProgressive(_, _, _)
CheckProgressive(t, currentProfit, k) ==
  IF k > Len(ProfitMilestones) THEN t
  ELSE LET milestone == ProfitMilestones[k]
       IN  CheckProgressive(
             IF currentProfit >= milestone /\ ~HasMilestoneBeenReached(t, milestone)
               THEN RecordMilestone(t, milestone) ELSE t,
             currentProfit, k + 1)

\* checkProfitThreshold: the milestone part (the threshold alerts only print).
CheckProfitThreshold(t, currentProfit) ==
  IF t.milestoneMode = "fixed" THEN CheckFixed(t, currentProfit)
  ELSE IF t.milestoneMode = "static" THEN CheckStatic(t, currentProfit)
  ELSE CheckProgressive(t, currentProfit, 1)

\* The total of a snapshot: GBP plus BTC at currentBtcPrice, or at the
\* placeholder price when none is given (0 stands for null).
TotalBalance(gbpBalance, btcBalance, currentBtcPrice) ==
  LET btcPrice == IF currentBtcPrice # 0 THEN currentBtcPrice ELSE PlaceholderBtcPrice
  IN  gbpBalance + btcBalance * btcPrice

\* A variant of recordBalance that takes the first snapshot of a history as
\* the baseline whether or not one is set.
RecordBalanceOpRebasing(t, totalBalance) ==
  LET profitLoss == IF Truthy(t.initialBalance)
                      THEN totalBalance - ValueOf(t.initialBalance) ELSE 0
      isFirst == Len(t.balanceHistory) + 1 = 1
      recorded == IF isFirst THEN 0 ELSE profitLoss
      t1 == [t EXCEPT
               !.balanceHistory = Append(@, [totalBalance |-> totalBalance,
                                             profitLoss   |-> recorded]),
               !.initialBalance = IF isFirst THEN {totalBalance} ELSE @]
  IN  CheckProfitThreshold(t1, recorded)

\* recordBalance
RecordBalanceOp(t, totalBalance) ==
  LET profitLoss == IF Truthy(t.initialBalance)
                      THEN totalBalance - ValueOf(t.initialBalance) ELSE 0
      isFirst == ~Truthy(t.initialBalance) /\ Len(t.balanceHistory) + 1 = 1
      recorded == IF isFirst THEN 0 ELSE profitLoss
      t1 == [t EXCEPT
               !.balanceHistory = Append(@, [totalBalance |-> totalBalance,
                                             profitLoss   |-> recorded]),
               !.initialBalance = IF isFirst THEN {totalBalance} ELSE @]
  IN  CheckProfitThreshold(t1, recorded)

\* recordTrade
RecordTradeOp(t, finalAmount, btcAmount) ==
  LET profitLoss == finalAmount - btcAmount * GetEstimatedBuyPrice
      runningProfit == CalculateRunningProfit(t) + profitLoss
      t1 == [t EXCEPT !.profitHistory = Append(@, TradeRecord(profitLoss, runningProfit))]
  IN  CheckProfitThreshold(t1, runningProfit)

\* setInitialBalance
SetInitialBalanceOp(t, amount) ==
  [t EXCEPT
     !.initialBalance = {amount},
     !.balanceHistory = [i \in 1 .. Len(t.balanceHistory) |->
                           [totalBalance |-> t.balanceHistory[i].totalBalance,
                            profitLoss   |-> t.balanceHistory[i].totalBalance - amount]]]

\* A variant of resetProfitTracking that keeps the milestone records.
ResetKeepingMilestones(t) ==
  [t EXCEPT !.profitHistory = SelectSeq(@, LAMBDA r : r.type = "milestone"),
            !.balanceHistory = <<>>,
            !.initialBalance = NoBalance]

\* resetProfitTracking
ResetProfitTrackingOp(t) ==
  [t EXCEPT !.profitHistory = <<>>, !.balanceHistory = <<>>,
            !.initialBalance = NoBalance]

TradeCount(t) ==
  Cardinality({i \in 1 .. Len(t.profitHistory) : t.profitHistory[i].type = "trade"})
RecordCount(t) == Len(t.balanceHistory) + TradeCount(t)
MilestoneCount(t) ==
  Cardinality({i \in 1 .. Len(t.profitHistory) : t.profitHistory[i].type = "milestone"})

\* saveProfitData: the balance file holds the balance history of the tracker
\* that wrote last, whatever the file held before.
SaveProfitData(t) == t.balanceHistory

\* The balance file after a handler that saves only when it got as far as
\* recording on its tracker.
SavedIfCalled(file, tracker, after) ==
  IF after = tracker THEN file ELSE SaveProfitData(after)

\* ------------------------------------------------------------ profit actions
RecordBalance ==
  /\ RecordCount(profitTracker) < MaxRecords
  /\ \E gbpBalance \in 0 .. MaxSnapshotGbp, btcBalance \in 0 .. MaxHolding,
        currentBtcPrice \in 0 .. MaxPrice :
       LET totalBalance == TotalBalance(gbpBalance, btcBalance, currentBtcPrice)
       IN  /\ profitTracker' = RecordBalanceOp(profitTracker, totalBalance)
           /\ lastCall' = Call("recordBalance", totalBalance, TRUE, 0)
  /\ UNCHANGED <<ledgerVars, snapshotsOnly, traderVars, engineVars, trading>>
  /\ balanceFile' = SaveProfitData(profitTracker')

RecordTrade ==
  /\ RecordCount(profitTracker) < MaxRecords
  /\ \E finalAmount \in 0 .. MaxFiat, btcAmount \in 1 .. MaxHolding :
       /\ profitTracker' = RecordTradeOp(profitTracker, finalAmount, btcAmount)
       /\ lastCall' = Call("recordTrade", finalAmount, TRUE, 0)
  /\ snapshotsOnly' = FALSE
  /\ UNCHANGED <<ledgerVars, traderVars, engineVars, trading>>
  /\ balanceFile' = SaveProfitData(profitTracker')

SetInitialBalance ==
  /\ \E amount \in 1 .. MaxFiat :
       /\ profitTracker' = SetInitialBalanceOp(profitTracker, amount)
       /\ lastCall' = Call("setInitialBalance", amount, TRUE, 0)
  /\ snapshotsOnly' = FALSE
  /\ UNCHANGED <<ledgerVars, traderVars, engineVars, trading>>
  /\ balanceFile' = SaveProfitData(profitTracker')

ResetProfitTracking ==
  /\ profitTracker' = ResetProfitTrackingOp(profitTracker)
  /\ lastCall' = Call("reset", 0, TRUE, MilestoneCount(profitTracker))
  /\ snapshotsOnly' = TRUE
  /\ UNCHANGED <<ledgerVars, traderVars, engineVars, trading>>
  /\ balanceFile' = SaveProfitData(profitTracker')

\* ------------------------------------------------------- scheduled actions
\* The stages at which executeBTCPurchase and executeBTCtoGBP can throw: the
\* price fetch, the balance check before a sale, the order, and the balance
\* fetch that follows the order.
BuyStages == {"price", "order", "balances", "none"}
SellStages == {"price", "balancesBefore", "order", "balances", "none"}

\* What a call that threw hands back: nothing.
NoResult == [status |-> "threw"]

\* `result && result.success` of buyAction and sellAction.
Success(result) == "success" \in DOMAIN result /\ result.success

\* result.btcAmount || (buyAmount / price) of buyAction.
BtcPurchased(result, buyAmount, price) ==
  IF "btcAmount" \in DOMAIN result /\ result.btcAmount # 0
    THEN result.btcAmount
    ELSE buyAmount \div price

\* A variant of executeBTCPurchase that logs the purchase before it places the
\* order.
ExecuteBTCPurchaseLoggingFirst(history, tracker, gbpAmount, failsAt, totalBalance) ==
  LET purchase == [type |-> "buy", gbpAmount |-> gbpAmount, status |-> "completed"]
      logged == Append(history, purchase)
  IN  IF failsAt = "price"
        THEN [history |-> history, tracker |-> tracker, threw |-> TRUE,
              placed |-> FALSE, result |-> NoResult]
      ELSE IF failsAt = "order"
        THEN [history |-> logged, tracker |-> tracker, threw |-> TRUE,
              placed |-> FALSE, result |-> NoResult]
      ELSE IF failsAt = "balances"
        THEN [history |-> logged, tracker |-> tracker, threw |-> TRUE,
              placed |-> TRUE, result |-> NoResult]
      ELSE [history |-> logged, tracker |-> RecordBalanceOp(tracker, totalBalance),
            threw |-> FALSE, placed |-> TRUE, result |-> purchase]

\* executeBTCPurchase: price, order, purchase logged, balances, snapshot; the
\* purchase is returned, and an error at any stage is rethrown.
ExecuteBTCPurchase(history, tracker, gbpAmount, failsAt, totalBalance) ==
  LET purchase == [type |-> "buy", gbpAmount |-> gbpAmount, status |-> "completed"]
      logged == Append(history, purchase)
  IN  IF failsAt \in {"price", "order"}
        THEN [history |-> history, tracker |-> tracker, threw |-> TRUE,
              placed |-> FALSE, result |-> NoResult]
      ELSE IF failsAt = "balances"
        THEN [history |-> logged, tracker |-> tracker, threw |-> TRUE,
              placed |-> TRUE, result |-> NoResult]
      ELSE [history |-> logged, tracker |-> RecordBalanceOp(tracker, totalBalance),
            threw |-> FALSE, placed |-> TRUE, result |-> purchase]

\* executeBTCtoGBP: price, balances and the insufficient-balance check, order,
\* trade logged and recorded, balances, snapshot; the trade is returned, and an
\* error at any stage is rethrown.
ExecuteBTCtoGBP(history, tracker, btcAmount, availableBtc, failsAt, finalAmount, totalBalance) ==
  LET trade == [type |-> "BTC_TO_GBP_CONVERSION", btcAmount |-> btcAmount,
                status |-> "completed"]
      logged == Append(history, trade)
      traded == RecordTradeOp(tracker, finalAmount, btcAmount)
  IN  IF failsAt \in {"price", "balancesBefore", "order"} \/ availableBtc < btcAmount
        THEN [history |-> history, tracker |-> tracker, threw |-> TRUE,
              placed |-> FALSE, result |-> NoResult]
      ELSE IF failsAt = "balances"
        THEN [history |-> logged, tracker |-> traded, threw |-> TRUE,
              placed |-> TRUE, result |-> NoResult]
      ELSE [history |-> logged, tracker |-> RecordBalanceOp(traded, totalBalance),
            threw |-> FALSE, placed |-> TRUE, result |-> trade]

\* The totals a snapshot can show: GBP plus BTC at the placeholder price.
Totals ==
  {TotalBalance(gbpBalance, btcBalance, 0) :
     gbpBalance \in 0 .. MaxFiat, btcBalance \in 0 .. MaxHolding}

\* The inputs a call reads only when it gets that far.
WhenReached(reached, values) == IF reached THEN values ELSE {0}

\* buyAction of executeAutomatedTrading: the purchase, then recordPayment when
\* the result reports success.
BuyAction ==
  \E buyAmount \in 1 .. MaxGbp, failsAt \in BuyStages :
    \E totalBalance \in WhenReached(failsAt = "none", Totals) :
      LET r == ExecuteBTCPurchase(buyingHistory, buyerTracker, buyAmount, failsAt,
                                  totalBalance)
      IN  /\ r.placed => Len(buyingHistory) + Len(tradingHistory) < MaxOrders
          /\ buyingHistory' = r.history
          /\ buyerTracker' = r.tracker
          /\ IF ~r.threw /\ Success(r.result)
               THEN \E price \in 1 .. MaxPrice :
                      /\ payments' = RecordPaymentOp(payments, now, buyAmount,
                                        BtcPurchased(r.result, buyAmount, price))
                      /\ now' = now + 1
               ELSE UNCHANGED <<payments, now>>
          /\ lastCall' = Call("buyAction", buyAmount, ~r.threw,
                              IF r.placed THEN 1 ELSE 0)
          /\ buyer' = IF Len(r.history) > Len(buyingHistory)
                         THEN [buyer EXCEPT !.lastBuyTime = now]
                         ELSE buyer
          /\ UNCHANGED <<profitVars, tradingHistory, sellerTracker, system, exchange, config,
                         timingVars, automationVars, trading>>
          /\ balanceFile' = SavedIfCalled(balanceFile, buyerTracker, buyerTracker')

\* sellAction of executeAutomatedTrading: the sale, then, when the result
\* reports success, the balance fetch and cleanupPaymentsAfterSale (skipped
\* when the fetch throws).
SellAction ==
  \E sellAmount \in 1 .. MaxHolding, availableBtc \in 0 .. MaxHolding,
     failsAt \in SellStages :
    \E finalAmount \in WhenReached(failsAt \in {"balances", "none"}
                                      /\ availableBtc >= sellAmount, 0 .. MaxFiat),
       totalBalance \in WhenReached(failsAt = "none"
                                      /\ availableBtc >= sellAmount, Totals) :
      LET r == ExecuteBTCtoGBP(tradingHistory, sellerTracker, sellAmount,
                               availableBtc, failsAt, finalAmount, totalBalance)
      IN  /\ r.placed => Len(buyingHistory) + Len(tradingHistory) < MaxOrders
          /\ tradingHistory' = r.history
          /\ sellerTracker' = r.tracker
          /\ IF ~r.threw /\ Success(r.result)
               THEN \E fetchThrows \in BOOLEAN, remainingBtc \in Balances(payments) :
                      payments' = IF fetchThrows
                                    THEN payments
                                    ELSE CleanupPaymentsAfterSaleOp(payments, remainingBtc)
               ELSE payments' = payments
          /\ lastCall' = Call("sellAction", sellAmount, ~r.threw,
                              IF r.placed THEN 1 ELSE 0)
          /\ UNCHANGED <<now, profitVars, buyingHistory, buyerTracker, engineVars, trading>>
          /\ balanceFile' = SavedIfCalled(balanceFile, sellerTracker, sellerTracker')

\* No purchase or trade logged, and the two traders' profit trackers empty.
NoOrders ==
  /\ buyingHistory = <<>>
  /\ tradingHistory = <<>>
  /\ buyerTracker = NewTracker("progressive")
  /\ sellerTracker = NewTracker("progressive")

\* -------------------------------------------------------- timing controller
\* this.lastRecordedPrice is undefined until a price is recorded: the empty
\* set, or the set of the one price.
Unrecorded == {}

\* getDay() and getHours() of the hour of the week; day 0 is Sunday.
HoursPerWeek == DaysPerWeek * HoursPerDay
Day(cal) == cal \div HoursPerDay
Hour(cal) == cal % HoursPerDay

\* The switches of the timing configuration.
TimingConfigs ==
  [enabled : BOOLEAN, tradingHoursEnabled : {TRUE}, avoidWeekends : {TRUE},
   overrideEnabled : BOOLEAN, allowSellOnly : BOOLEAN]
DefaultTimingConfig ==
  [enabled |-> TRUE, tradingHoursEnabled |-> TRUE, avoidWeekends |-> TRUE,
   overrideEnabled |-> TRUE, allowSellOnly |-> TRUE]

\* The constructor of TimingController.
NewController(cfg) ==
  [config |-> cfg, lastRecordedPrice |-> Unrecorded, pendingActions |-> {}]

ActionTypes == {"buy", "sell"}

\* isWithinTradingHours
IsWithinTradingHours(cfg, cal) ==
  IF ~cfg.tradingHoursEnabled THEN TRUE
  ELSE Hour(cal) >= TradingHoursStart /\ Hour(cal) < TradingHoursEnd

\* isWeekend
IsWeekend(cfg, cal) ==
  IF ~cfg.avoidWeekends THEN FALSE
  ELSE Day(cal) = 0 \/ Day(cal) = 6

\* priceChange >= threshold, for a recorded price
PriceJumped(price, recorded) ==
  (price - recorded) * 100 >= PriceJumpThreshold * recorded

\* A variant of checkEmergencyOverride that overrides for every action type.
CheckEmergencyOverrideForAnyAction(c, price, actionType) ==
  IF ~c.config.overrideEnabled
    THEN [override |-> FALSE, controller |-> c]
  ELSE IF ~Truthy(c.lastRecordedPrice)
    THEN [override |-> FALSE,
          controller |-> [c EXCEPT !.lastRecordedPrice = {price}]]
  ELSE IF PriceJumped(price, ValueOf(c.lastRecordedPrice))
    THEN [override |-> TRUE, controller |-> c]
  ELSE [override |-> FALSE,
        controller |-> [c EXCEPT !.lastRecordedPrice = {price}]]

\* checkEmergencyOverride, called with price data: whether the override
\* applies, and the controller with the price it recorded.
CheckEmergencyOverride(c, price, actionType) ==
  IF ~c.config.overrideEnabled
    THEN [override |-> FALSE, controller |-> c]
  ELSE IF c.config.allowSellOnly /\ actionType # "sell"
    THEN [override |-> FALSE, controller |-> c]
  ELSE IF ~Truthy(c.lastRecordedPrice)
    THEN [override |-> FALSE,
          controller |-> [c EXCEPT !.lastRecordedPrice = {price}]]
  ELSE IF PriceJumped(price, ValueOf(c.lastRecordedPrice))
    THEN [override |-> TRUE, controller |-> c]
  ELSE [override |-> FALSE,
        controller |-> [c EXCEPT !.lastRecordedPrice = {price}]]

\* A variant of isTradingAllowed that does not look at the day of the week.
IsTradingAllowedOnAnyDay(c, cal, price, actionType) ==
  IF ~c.config.enabled THEN [allowed |-> TRUE, controller |-> c]
  ELSE LET o == CheckEmergencyOverride(c, price, actionType)
       IN  IF o.override THEN [allowed |-> TRUE, controller |-> o.controller]
           ELSE IF ~IsWithinTradingHours(c.config, cal)
             THEN [allowed |-> FALSE, controller |-> o.controller]
           ELSE [allowed |-> TRUE, controller |-> o.controller]

\* isTradingAllowed: the result, and the controller after the override check.
IsTradingAllowed(c, cal, price, actionType) ==
  IF ~c.config.enabled THEN [allowed |-> TRUE, controller |-> c]
  ELSE LET o == CheckEmergencyOverride(c, price, actionType)
       IN  IF o.override THEN [allowed |-> TRUE, controller |-> o.controller]
           ELSE IF IsWeekend(c.config, cal)
             THEN [allowed |-> FALSE, controller |-> o.controller]
           ELSE IF ~IsWithinTradingHours(c.config, cal)
             THEN [allowed |-> FALSE, controller |-> o.controller]
           ELSE [allowed |-> TRUE, controller |-> o.controller]

\* A gate check as the claims see it: the action checked, the price recorded
\* before the check, and the result.
GateCheck(id, actionType, price, recordedBefore, checked, allowed) ==
  [id |-> id, type |-> actionType, price |-> price,
   recordedBefore |-> recordedBefore, checked |-> checked, allowed |-> allowed]

\* The entry of pendingActions and the timers of an action.
PendingAction(id, actionType, price) == [id |-> id, type |-> actionType, price |-> price]
Timer(kind, id, actionType, price, due) ==
  [kind |-> kind, id |-> id, type |-> actionType, price |-> price, due |-> due]

\* scheduleAction: with timing disabled the action runs at once; when trading
\* is not allowed the call returns false and keeps nothing; otherwise the
\* action is stored and a timer set for its delay.
ScheduleActionOp(c, tm, obs, cal, id, actionType, price, delay) ==
  LET gate == IsTradingAllowed(c, cal, price, actionType)
  IN  IF ~c.config.enabled
        THEN [controller |-> c, timers |-> tm,
              observed |-> [obs EXCEPT !.ran = @ \cup {id}],
              check |-> GateCheck(id, actionType, price, c.lastRecordedPrice,
                                  FALSE, TRUE)]
      ELSE IF ~gate.allowed
        THEN [controller |-> gate.controller, timers |-> tm, observed |-> obs,
              check |-> GateCheck(id, actionType, price, c.lastRecordedPrice,
                                  TRUE, FALSE)]
      ELSE [controller |->
              [gate.controller EXCEPT
                 !.pendingActions =
                    {a \in @ : a.id # id} \cup {PendingAction(id, actionType, price)}],
            timers |-> tm \cup {Timer("execute", id, actionType, price, delay)},
            observed |-> obs,
            check |-> GateCheck(id, actionType, price, c.lastRecordedPrice,
                                TRUE, TRUE)]

\* executeAutomatedTrading hands a new action to scheduleAction.
ScheduleAction ==
  \E id \in (1 .. MaxActions) \ observed.issued, actionType \in ActionTypes,
     price \in 1 .. MaxJump, delay \in ScheduleDelays :
    LET r == ScheduleActionOp(controller, timers,
                              [observed EXCEPT !.issued = @ \cup {id}],
                              calendar, id, actionType, price, delay)
    IN  /\ controller' = r.controller
        /\ timers' = r.timers
        /\ observed' = r.observed
        /\ lastCall' = Call("scheduleAction", r.check, TRUE, 0)
        /\ UNCHANGED <<ledgerVars, profitVars, traderVars, decisionVars, calendar,
                         automationVars, hostVars>>

\* executeScheduledAction, run by the timer of scheduleAction: nothing without
\* a pending entry; when trading is not allowed the entry is deleted and a
\* timer set to call scheduleAction again in an hour; otherwise the action
\* runs and the entry is deleted.
ExecuteScheduledAction ==
  \E t \in timers :
    /\ t.kind = "execute" /\ t.due = 0
    /\ LET pending == {a \in controller.pendingActions : a.id = t.id}
           a == CHOOSE a \in pending : TRUE
           gate == IsTradingAllowed(controller, calendar, a.price, a.type)
       IN  IF pending = {}
             THEN /\ timers' = timers \ {t}
                  /\ lastCall' = Call("executeScheduledAction",
                                      GateCheck(t.id, t.type, t.price,
                                                controller.lastRecordedPrice,
                                                FALSE, FALSE), TRUE, 0)
                  /\ UNCHANGED <<controller, observed>>
           ELSE /\ lastCall' = Call("executeScheduledAction",
                                    GateCheck(a.id, a.type, a.price,
                                              controller.lastRecordedPrice,
                                              TRUE, gate.allowed), TRUE, 0)
                /\ controller' = [gate.controller EXCEPT
                                    !.pendingActions = @ \ pending]
                /\ IF ~gate.allowed
                     THEN /\ timers' = (timers \ {t})
                                \cup {Timer("reschedule", a.id, a.type, a.price,
                                            RescheduleDelay)}
                          /\ observed' = [observed EXCEPT !.deferred = @ \cup {a.id}]
                     ELSE /\ timers' = timers \ {t}
                          /\ observed' = [observed EXCEPT !.ran = @ \cup {a.id}]
    /\ UNCHANGED <<ledgerVars, profitVars, traderVars, decisionVars, calendar,
                         automationVars, hostVars>>

\* The timer of the reschedule runs: scheduleAction is called again with the
\* action, its type and its price data.
RescheduleAction ==
  \E t \in timers, delay \in ScheduleDelays :
    /\ t.kind = "reschedule" /\ t.due = 0
    /\ LET r == ScheduleActionOp(controller, timers \ {t}, observed, calendar,
                                 t.id, t.type, t.price, delay)
       IN  /\ controller' = r.controller
           /\ timers' = r.timers
           /\ observed' = r.observed
           /\ lastCall' = Call("reschedule", r.check, TRUE, 0)
    /\ UNCHANGED <<ledgerVars, profitVars, traderVars, decisionVars, calendar,
                         automationVars, hostVars>>

\* cancelAllPending: pendingActions is cleared; the timers stay.  The ids
\* cancelled are those pending and those waiting for their reschedule.
CancelAllPending ==
  /\ controller' = [controller EXCEPT !.pendingActions = {}]
  /\ observed' =
       [observed EXCEPT
          !.cancelled = @ \cup {a.id : a \in controller.pendingActions}
                          \cup {t.id : t \in {u \in timers : u.kind = "reschedule"}}]
  /\ lastCall' = Call("cancelAllPending", 0, TRUE, 0)
  /\ UNCHANGED <<ledgerVars, profitVars, traderVars, decisionVars, calendar, timers,
                 automationVars, hostVars>>

\* An hour passes: no timer is due, and every timer is an hour nearer.
AdvanceHour ==
  /\ \A t \in timers : t.due > 0
  /\ calendar' = (calendar + 1) % HoursPerWeek
  /\ timers' = {[t EXCEPT !.due = @ - 1] : t \in timers}
  /\ lastCall' = Call("advanceHour", 0, TRUE, 0)
  /\ UNCHANGED <<ledgerVars, profitVars, traderVars, decisionVars, controller,
                 observed, automationVars, hostVars>>

NothingObserved == [issued |-> {}, ran |-> {}, deferred |-> {}, cancelled |-> {}]

\* No timing state: a controller with the default configuration, no timers.
TimingIdle ==
  /\ calendar = 0
  /\ controller = NewController(DefaultTimingConfig)
  /\ timers = {}
  /\ observed = NothingObserved

\* ---------------------------------------------------------- decision engine
\* lastSellPrice is null until a sell price is stored: the empty set, or the
\* set of the one price.
NoSell == {}

\* A price above every quoted price stands for Infinity.
Infinity == MaxQuote + 1

\* Date.now() when the system is constructed: long after the epoch, so that
\* every gap measured from a time of 0 has elapsed.
StartTime == MinimumGapBetweenBuys + CooldownBetweenTrades

\* The constructor of BTCBuyingSystem, with no data files to load.
NewBuyer == [lastSellPrice |-> NoSell, recentHigh |-> 0, lastBuyTime |-> 0]

\* The constructor of UnifiedTradingSystem.
NewSystem ==
  [lastTradeTime |-> 0, recentHigh |-> 0, recentLow |-> Infinity,
   previousPrice |-> 0, lastKnownBtcBalance |-> 0]

\* The switches of the configuration.
Configs ==
  [buyingEnabled : {TRUE}, sellingEnabled : BOOLEAN, stopLoss : BOOLEAN,
   supportLevelBuying : BOOLEAN]
DefaultConfig ==
  [buyingEnabled |-> TRUE, sellingEnabled |-> TRUE, stopLoss |-> FALSE,
   supportLevelBuying |-> FALSE]

\* updateLastSellPrice (saveLastSellData writes the same values to the file)
UpdateLastSellPrice(b, sellPrice) == [b EXCEPT !.lastSellPrice = {sellPrice}]

\* getTodaysBuyingAmount and getTodaysBuyingTradeCount: every purchase of the
\* history is of today, the model ending before midnight.
RECURSIVE GetTodaysBuyingAmount(_, _)
GetTodaysBuyingAmount(history, i) ==
  IF i > Len(history) THEN 0
  ELSE history[i].gbpAmount + GetTodaysBuyingAmount(history, i + 1)
GetTodaysBuyingTradeCount(history) == Len(history)

\* Math.abs
Abs(x) == IF x < 0 THEN 0 - x ELSE x

\* A variant of checkBuyingConditions whose post-sell condition keeps its
\* default when no sell price is stored.
CheckBuyingConditionsDefaultingPostSell(b, cfg, history, t, price, availableGbp, btcHolding) ==
  LET recentHigh == IF price > b.recentHigh THEN price ELSE b.recentHigh
      priceThreshold == price <= BuyPriceThreshold
      percentageDrop ==
        recentHigh > 0 /\ (recentHigh - price) * 100 >= PercentageDrop * recentHigh
      sufficientBalance == availableGbp >= MaxBuyAmount + MinAccountBalance
      withinDailyLimit ==
        /\ GetTodaysBuyingAmount(history, 1) + MaxBuyAmount <= MaxDailyBuying
        /\ GetTodaysBuyingTradeCount(history) < MaxDailyBuyTrades
      timingOk == t - b.lastBuyTime >= MinimumGapBetweenBuys
      belowMaxHolding == btcHolding < MaxBtcHolding
      supportLevel ==
        cfg.supportLevelBuying
          /\ \E level \in SupportLevels : Abs(price - level) * 100 <= level
      postSellThreshold ==
        IF b.lastSellPrice # NoSell
          THEN ValueOf(b.lastSellPrice) - price >= PostSellDropThreshold
          ELSE TRUE
  IN  [buyer |-> [b EXCEPT !.recentHigh = recentHigh],
       checked |-> TRUE,
       priceThreshold |-> priceThreshold, percentageDrop |-> percentageDrop,
       sufficientBalance |-> sufficientBalance,
       withinDailyLimit |-> withinDailyLimit, timingOk |-> timingOk,
       belowMaxHolding |-> belowMaxHolding, supportLevel |-> supportLevel,
       postSellThreshold |-> postSellThreshold,
       shouldBuy |-> /\ (priceThreshold \/ percentageDrop \/ supportLevel)
                     /\ sufficientBalance /\ withinDailyLimit /\ timingOk
                     /\ belowMaxHolding /\ postSellThreshold]

\* A variant of checkBuyingConditions that buys on a trigger alone.
CheckBuyingConditionsWithoutGates(b, cfg, history, t, price, availableGbp, btcHolding) ==
  LET c == CheckBuyingConditionsDefaultingPostSell(b, cfg, history, t, price,
                                                   availableGbp, btcHolding)
  IN  [c EXCEPT !.shouldBuy = c.priceThreshold \/ c.percentageDrop \/ c.supportLevel]

\* checkBuyingConditions: the recent high is raised to the price, each
\* condition is computed, and shouldBuy is one trigger and every gate.
\* buyTriggers.enabled is `config.buyTriggers?.enabled || true`, always true.
CheckBuyingConditions(b, cfg, history, t, price, availableGbp, btcHolding) ==
  LET recentHigh == IF price > b.recentHigh THEN price ELSE b.recentHigh
      priceThreshold == price <= BuyPriceThreshold
      percentageDrop ==
        recentHigh > 0 /\ (recentHigh - price) * 100 >= PercentageDrop * recentHigh
      sufficientBalance == availableGbp >= MaxBuyAmount + MinAccountBalance
      withinDailyLimit ==
        /\ GetTodaysBuyingAmount(history, 1) + MaxBuyAmount <= MaxDailyBuying
        /\ GetTodaysBuyingTradeCount(history) < MaxDailyBuyTrades
      timingOk == t - b.lastBuyTime >= MinimumGapBetweenBuys
      belowMaxHolding == btcHolding < MaxBtcHolding
      supportLevel ==
        cfg.supportLevelBuying
          /\ \E level \in SupportLevels : Abs(price - level) * 100 <= level
      postSellThreshold ==
        IF b.lastSellPrice # NoSell
          THEN ValueOf(b.lastSellPrice) - price >= PostSellDropThreshold
          ELSE FALSE
  IN  [buyer |-> [b EXCEPT !.recentHigh = recentHigh],
       checked |-> TRUE,
       priceThreshold |-> priceThreshold, percentageDrop |-> percentageDrop,
       sufficientBalance |-> sufficientBalance,
       withinDailyLimit |-> withinDailyLimit, timingOk |-> timingOk,
       belowMaxHolding |-> belowMaxHolding, supportLevel |-> supportLevel,
       postSellThreshold |-> postSellThreshold,
       shouldBuy |-> /\ (priceThreshold \/ percentageDrop \/ supportLevel)
                     /\ sufficientBalance /\ withinDailyLimit /\ timingOk
                     /\ belowMaxHolding /\ postSellThreshold]

\* What the analysis holds of the buy conditions when checkBuyingConditions
\* was not called or did not return.
NotChecked(b) ==
  [buyer |-> b, checked |-> FALSE,
   priceThreshold |-> FALSE, percentageDrop |-> FALSE,
   sufficientBalance |-> FALSE, withinDailyLimit |-> FALSE, timingOk |-> FALSE,
   belowMaxHolding |-> FALSE, supportLevel |-> FALSE,
   postSellThreshold |-> FALSE, shouldBuy |-> FALSE]

\* The reasons of checkSellConditions, by trigger, in the order they are pushed.
Reason(holds, name) == IF holds THEN <<name>> ELSE <<>>

\* netProfit >= target, for a profit before fees and the BTC value the fees are
\* estimated on: fees = value * 3/400 + withdrawal fee, compared in 400ths.
NetOfFeesAtLeast(profit, value, target) ==
  FeeDenominator * profit - (FeeNumerator * value + FeeDenominator * WithdrawalFee)
    >= FeeDenominator * target

\* A variant of checkSellConditions without the BTC profit target.
CheckSellConditionsOfFourTriggers(sys, cfg, price, btcAvailable, currentProfit) ==
  LET currentBtcValue == btcAvailable * price
  IN  Reason(price >= SellPriceThreshold, "priceThreshold")
      \o Reason(NetOfFeesAtLeast(currentProfit, currentBtcValue, ProfitTarget),
                "profitTarget")
      \o Reason(sys.recentLow < Infinity
                  /\ (price - sys.recentLow) * 100 >= PercentageGain * sys.recentLow,
                "percentageGain")
      \o Reason(cfg.stopLoss /\ sys.recentHigh > 0
                  /\ (sys.recentHigh - price) * 100 >= StopLossPercent * sys.recentHigh,
                "stopLoss")

\* checkSellConditions: price threshold, net profit target, BTC profit target,
\* gain from the recent low, stop loss.
CheckSellConditions(sys, cfg, price, btcAvailable, currentProfit) ==
  LET currentBtcValue == btcAvailable * price
  IN  Reason(price >= SellPriceThreshold, "priceThreshold")
      \o Reason(NetOfFeesAtLeast(currentProfit, currentBtcValue, ProfitTarget),
                "profitTarget")
      \o Reason(BtcProfitTarget # 0 /\ btcAvailable > 0
                  /\ NetOfFeesAtLeast(currentBtcValue - InitialBtcValue,
                                      currentBtcValue, BtcProfitTarget),
                "btcProfitTarget")
      \o Reason(sys.recentLow < Infinity
                  /\ (price - sys.recentLow) * 100 >= PercentageGain * sys.recentLow,
                "percentageGain")
      \o Reason(cfg.stopLoss /\ sys.recentHigh > 0
                  /\ (sys.recentHigh - price) * 100 >= StopLossPercent * sys.recentHigh,
                "stopLoss")

\* getTodaysTradeCount: the purchases and the trades of today.
GetTodaysTradeCount(purchases, trades) == Len(purchases) + Len(trades)

\* canTrade: the cooldown since the last trade, and the daily trade limit.
CanTrade(sys, t, purchases, trades) ==
  /\ ~(t - sys.lastTradeTime < CooldownBetweenTrades)
  /\ ~(GetTodaysTradeCount(purchases, trades) >= MaxDailyTrades)

\* analysis.decisions, and what the buyer returned.
Decisions(shouldBuy, shouldSell, reasons, buyConditions) ==
  [shouldBuy |-> shouldBuy, shouldSell |-> shouldSell, reasons |-> reasons,
   buyConditions |-> buyConditions]

\* The decision part of analyzeTradingOpportunity, for a system, a buyer and the
\* values the cycle obtained.
DecisionOf(sys, b, cfg, purchases, trades, t, price, gbp, btc, currentProfit) ==
  LET buy == IF cfg.buyingEnabled
               THEN CheckBuyingConditions(b, cfg, purchases, t, price, gbp, btc)
               ELSE NotChecked(b)
      shouldBuy == buy.shouldBuy /\ CanTrade(sys, t, purchases, trades)
      sellReasons == IF cfg.sellingEnabled /\ btc > 0
                       THEN CheckSellConditions(sys, cfg, price, btc, currentProfit)
                       ELSE <<>>
      shouldSell == Len(sellReasons) > 0 /\ CanTrade(sys, t, purchases, trades)
  IN  Decisions(shouldBuy, shouldSell,
                Reason(shouldBuy, "Buy conditions met")
                  \o (IF shouldSell THEN sellReasons ELSE <<>>),
                buy)

\* A variant of the balance test that takes any decrease for a sale.
BalanceFellAtAll(lastKnownBtcBalance, currentBtcBalance) ==
  lastKnownBtcBalance > 0 /\ lastKnownBtcBalance > currentBtcBalance

\* The balance test of analyzeTradingOpportunity: a balance was tracked, the
\* current one is below it, and by more than the threshold.
BalanceFell(lastKnownBtcBalance, currentBtcBalance) ==
  /\ lastKnownBtcBalance > 0
  /\ lastKnownBtcBalance > currentBtcBalance
  /\ lastKnownBtcBalance - currentBtcBalance > BalanceDecreaseThreshold

\* The price tracking of analyzeTradingOpportunity.
TrackPrice(sys, price, btc) ==
  [sys EXCEPT !.lastKnownBtcBalance = btc,
              !.recentHigh = IF price > @ THEN price ELSE @,
              !.recentLow = IF price < @ THEN price ELSE @]

\* analyzeTradingOpportunity, every fetch returning: price and balances,
\* snapshot, reconciliation of the ledger when the BTC balance fell, price
\* tracking, the buy and the sell decision, previousPrice.  The call
\* record says whether cleanupPaymentsAfterSale was invoked.
AnalyzeTradingOpportunity ==
  /\ Len(profitTracker.balanceHistory) < MaxCycles
  /\ \E price \in 1 .. MaxQuote :
       LET gbp == exchange.gbp
           btc == exchange.btc
           tracker == RecordBalanceOp(profitTracker, TotalBalance(gbp, btc, price))
           currentProfit == CalculateRunningProfit(tracker)
           fell == BalanceFell(system.lastKnownBtcBalance, btc)
           tracked == TrackPrice(system, price, btc)
           d == DecisionOf(tracked, buyer, config, buyingHistory, tradingHistory,
                           now, price, gbp, btc, currentProfit)
           inputs == [price |-> price, gbp |-> gbp, btc |-> btc,
                      currentProfit |-> currentProfit, cleaned |-> fell]
       IN  /\ profitTracker' = tracker
           /\ payments' = IF fell THEN CleanupPaymentsAfterSaleOp(payments, btc)
                                  ELSE payments
           /\ system' = [tracked EXCEPT !.previousPrice = price]
           /\ buyer' = d.buyConditions.buyer
           /\ lastCall' = Call("analyze", inputs, TRUE, d)
           /\ UNCHANGED <<now, snapshotsOnly, traderVars, exchange, config, timingVars,
                          automationVars, trading>>
           /\ balanceFile' = SaveProfitData(profitTracker')

\* executeAutomatedTrading after the analysis: a decision fired, scheduleAction
\* took the action, and lastTradeTime is set.
TradeScheduled ==
  /\ lastCall.op = "analyze" /\ lastCall.ok
  /\ lastCall.result.shouldBuy \/ lastCall.result.shouldSell
  /\ system' = [system EXCEPT !.lastTradeTime = now]
  /\ lastCall' = Call("scheduled", lastCall.arg, TRUE, 0)
  /\ UNCHANGED <<ledgerVars, profitVars, traderVars, buyer, exchange, config,
                 timingVars, automationVars, hostVars>>

\* Time passes: one cooldown period.
Tick ==
  /\ now < StartTime + MaxElapsed
  /\ now' = now + 1
  /\ lastCall' = Call("tick", 0, TRUE, 0)
  /\ UNCHANGED <<payments, profitVars, traderVars, engineVars, hostVars>>

\* ------------------------------------------------------------- polling loop
\* this.monitoringTimeout is null or one timer: the empty set, or the set of
\* the time the timer is due.
NoTimeout == {}

\* monitoring.randomPolling of the configuration; the intervals and the gap
\* are configured independently of each other.
PollingConfigs ==
  {c \in [enabled : BOOLEAN, minInterval : 1 .. MaxInterval,
          maxInterval : 1 .. MaxInterval, minGapBetweenChecks : 1 .. MaxInterval] :
     c.minInterval <= c.maxInterval}

\* The constructor: not monitoring, lastCheckTime 0, no timer.  running counts
\* the executeAutomatedTrading calls that have not yet returned, and
\* lastEvaluation holds the time the latest one was started.
NewPoller(cfg) ==
  [config |-> cfg, monitoring |-> FALSE, lastCheckTime |-> 0,
   monitoringTimeout |-> NoTimeout, running |-> 0, lastEvaluation |-> {}]

\* The intervals Math.random() can give scheduleNextCheck: any in
\* [minInterval, maxInterval], or the base interval when randomPolling is off.
RandomIntervals(cfg) ==
  IF cfg.enabled THEN cfg.minInterval .. cfg.maxInterval ELSE {MonitoringInterval}

\* The interval after the clamp: with randomPolling on and a lastCheckTime
\* recorded, at least what remains of minGapBetweenChecks.
ClampedInterval(p, t, randomInterval) ==
  IF p.config.enabled /\ p.lastCheckTime # 0
    THEN LET remainingGap == p.config.minGapBetweenChecks - (t - p.lastCheckTime)
         IN  IF remainingGap > 0 /\ remainingGap > randomInterval
               THEN remainingGap ELSE randomInterval
    ELSE randomInterval

\* scheduleNextCheck: the timer is cleared and set again.
ScheduleNextCheck(p, t, randomInterval) ==
  [p EXCEPT !.monitoringTimeout = {t + ClampedInterval(p, t, randomInterval)}]

\* executeAutomatedTrading is called and not awaited: the cycle has started and
\* is at its first await when the caller goes on.
BeginCycle(p, t) ==
  [p EXCEPT !.running = @ + 1, !.lastEvaluation = {t}]

\* An evaluation as the claims see it: when it started, when the one before it
\* started, and how many cycles were already running.
Evaluation(p, t) ==
  [at |-> t, previous |-> p.lastEvaluation, alreadyRunning |-> p.running]

\* startAutomatedTrading: nothing when already monitoring; otherwise the
\* initial check, then scheduleNextCheck.
StartAutomatedTrading ==
  /\ ~poller.monitoring
  /\ poller.running < MaxOverlap
  /\ \E randomInterval \in RandomIntervals(poller.config) :
       poller' = ScheduleNextCheck(
                   BeginCycle([poller EXCEPT !.monitoring = TRUE], now),
                   now, randomInterval)
  /\ lastCall' = Call("startAutomatedTrading", Evaluation(poller, now), TRUE, 0)
  /\ UNCHANGED <<ledgerVars, profitVars, traderVars, decisionVars, timingVars,
                 scheduled, alerts, hostVars>>

\* The callback of monitoringTimeout: lastCheckTime is set, the cycle is
\* started, and the next check is scheduled.
PollTimerFires ==
  /\ poller.monitoringTimeout = {now}
  /\ poller.running < MaxOverlap
  /\ \E randomInterval \in RandomIntervals(poller.config) :
       poller' = ScheduleNextCheck(
                   BeginCycle([poller EXCEPT !.lastCheckTime = now], now),
                   now, randomInterval)
  /\ lastCall' = Call("pollTimer", Evaluation(poller, now), TRUE, 0)
  /\ UNCHANGED <<ledgerVars, profitVars, traderVars, decisionVars, timingVars,
                 scheduled, alerts, hostVars>>

\* A cycle returns: its price fetch, decision and scheduling are over, or one
\* of them failed and the catch returned false.
CycleCompletes ==
  /\ poller.running > 0
  /\ poller' = [poller EXCEPT !.running = @ - 1]
  /\ lastCall' = Call("cycleCompletes", 0, TRUE, 0)
  /\ UNCHANGED <<ledgerVars, profitVars, traderVars, decisionVars, timingVars,
                 scheduled, alerts, hostVars>>

\* stopAutomatedTrading: nothing when not monitoring; otherwise the timer is
\* cleared.
StopAutomatedTrading ==
  /\ poller.monitoring
  /\ poller' = [poller EXCEPT !.monitoring = FALSE, !.monitoringTimeout = NoTimeout]
  /\ lastCall' = Call("stopAutomatedTrading", 0, TRUE, 0)
  /\ UNCHANGED <<ledgerVars, profitVars, traderVars, decisionVars, timingVars,
                 scheduled, alerts, hostVars>>

\* Time passes while no timer is due.
PollClockTick ==
  /\ now < MaxPollTime
  /\ poller.monitoringTimeout # {now}
  /\ now' = now + 1
  /\ lastCall' = Call("pollClockTick", 0, TRUE, 0)
  /\ UNCHANGED <<payments, profitVars, traderVars, engineVars, hostVars>>

\* ------------------------------------------------- cycles and delayed trades
\* The entry scheduleAction keeps for a trade: its type, its amount, when it
\* was scheduled and when its timer is due.
ScheduledTrade(actionType, amount, at, due) ==
  [type |-> actionType, amount |-> amount, at |-> at, due |-> due]

\* getRandomizedSellAmount with randomizeAmount off: the smaller of
\* maxSellAmount and the BTC available.
SellAmount(btc) == Min(MaxSellAmount, btc)

\* executeAutomatedTrading, every fetch returning and the timing controller
\* taking the action (the cycle runs within trading hours): the analysis, then
\* the buy scheduled when shouldBuy, else the sell when shouldSell, and
\* lastTradeTime set when one was scheduled.  The purchase or the sale itself
\* runs later, from the timer of scheduleAction.
ExecuteAutomatedTrading ==
  /\ Len(profitTracker.balanceHistory) < MaxCycles
  /\ \E price \in 1 .. MaxQuote, delay \in ActionDelays :
       LET gbp == exchange.gbp
           btc == exchange.btc
           tracker == RecordBalanceOp(profitTracker, TotalBalance(gbp, btc, price))
           currentProfit == CalculateRunningProfit(tracker)
           fell == BalanceFell(system.lastKnownBtcBalance, btc)
           tracked == TrackPrice(system, price, btc)
           d == DecisionOf(tracked, buyer, config, buyingHistory, tradingHistory,
                           now, price, gbp, btc, currentProfit)
           buys == d.shouldBuy
           sells == d.shouldSell /\ ~buys
           executed == buys \/ sells
           trade == IF buys
                      THEN ScheduledTrade("buy", MaxBuyAmount, now, now + delay)
                      ELSE ScheduledTrade("sell", SellAmount(btc), now, now + delay)
           inputs == [price |-> price, gbp |-> gbp, btc |-> btc,
                      currentProfit |-> currentProfit]
       IN  /\ profitTracker' = tracker
           /\ payments' = IF fell THEN CleanupPaymentsAfterSaleOp(payments, btc)
                                  ELSE payments
           /\ system' = [tracked EXCEPT
                           !.previousPrice = price,
                           !.lastTradeTime = IF executed THEN now ELSE @]
           /\ buyer' = d.buyConditions.buyer
           /\ scheduled' = IF executed THEN scheduled \cup {trade} ELSE scheduled
           /\ lastCall' = Call("cycle", inputs, TRUE, d)
           /\ UNCHANGED <<now, snapshotsOnly, traderVars, exchange, config, timingVars,
                          poller, alerts, trading>>
           /\ balanceFile' = SaveProfitData(profitTracker')

\* What a run of a delayed trade shows: its type, when it ran, the time of the
\* purchase before it (buyer.lastBuyTime as the run found it), and whether a
\* purchase or a trade was logged.
TradeRun(trade, t, previousBuyTime, logged) ==
  [type |-> trade.type, at |-> t, scheduledAt |-> trade.at,
   previousBuyTime |-> previousBuyTime, logged |-> logged]

\* The timer of a scheduled buy runs buyAction: executeBTCPurchase (the order
\* is refused when the account does not hold the amount), then recordPayment
\* when the result reports success.  The account after the order holds the
\* amount less in GBP, and the same or the next unit of BTC.
RunScheduledBuy ==
  \E trade \in scheduled, failsAt \in {"order", "none"}, price \in 1 .. MaxPrice,
     bought \in 0 .. 1 :
    /\ trade.type = "buy" /\ trade.due = now
    /\ exchange.gbp < trade.amount => failsAt = "order"
    /\ LET after == IF failsAt = "none"
                      THEN [gbp |-> exchange.gbp - trade.amount,
                            btc |-> Min(exchange.btc + bought, MaxHolding)]
                      ELSE exchange
           r == ExecuteBTCPurchase(buyingHistory, buyerTracker, trade.amount, failsAt,
                                   TotalBalance(after.gbp, after.btc, 0))
           logged == Len(r.history) > Len(buyingHistory)
       IN  /\ buyingHistory' = r.history
           /\ buyerTracker' = r.tracker
           /\ exchange' = after
           /\ buyer' = IF logged THEN [buyer EXCEPT !.lastBuyTime = now] ELSE buyer
           /\ payments' = IF ~r.threw /\ Success(r.result)
                            THEN RecordPaymentOp(payments, now, trade.amount,
                                                 BtcPurchased(r.result, trade.amount, price))
                            ELSE payments
           /\ lastCall' = Call("runScheduled",
                               TradeRun(trade, now, buyer.lastBuyTime, logged),
                               ~r.threw, IF r.placed THEN 1 ELSE 0)
    /\ scheduled' = scheduled \ {trade}
    /\ UNCHANGED <<now, profitVars, tradingHistory, sellerTracker, system, config,
                   timingVars, poller, alerts, trading>>
    /\ balanceFile' = SavedIfCalled(balanceFile, buyerTracker, buyerTracker')

\* The timer of a scheduled sell runs sellAction: executeBTCtoGBP, then, when
\* the result reports success, the balance fetch and cleanupPaymentsAfterSale.
RunScheduledSell ==
  \E trade \in scheduled, failsAt \in {"order", "none"}, finalAmount \in 0 .. 1 :
    /\ trade.type = "sell" /\ trade.due = now
    /\ LET sold == failsAt = "none" /\ exchange.btc >= trade.amount
           after == IF sold
                      THEN [gbp |-> Min(exchange.gbp + finalAmount, MaxFiat),
                            btc |-> exchange.btc - trade.amount]
                      ELSE exchange
           r == ExecuteBTCtoGBP(tradingHistory, sellerTracker, trade.amount,
                                exchange.btc, failsAt, finalAmount,
                                TotalBalance(after.gbp, after.btc, 0))
           logged == Len(r.history) > Len(tradingHistory)
       IN  /\ tradingHistory' = r.history
           /\ sellerTracker' = r.tracker
           /\ exchange' = after
           /\ payments' = IF ~r.threw /\ Success(r.result)
                            THEN CleanupPaymentsAfterSaleOp(payments, after.btc)
                            ELSE payments
           /\ lastCall' = Call("runScheduled",
                               TradeRun(trade, now, buyer.lastBuyTime, logged),
                               ~r.threw, IF r.placed THEN 1 ELSE 0)
    /\ scheduled' = scheduled \ {trade}
    /\ UNCHANGED <<now, profitVars, buyingHistory, buyerTracker, buyer, system, config,
                   timingVars, poller, alerts, trading>>
    /\ balanceFile' = SavedIfCalled(balanceFile, sellerTracker, sellerTracker')

\* Time passes, one cooldown period, while no timer of a trade is due.
AdvancePeriod ==
  /\ now < StartTime + MaxWait
  /\ \A trade \in scheduled : trade.due > now
  /\ now' = now + 1
  /\ lastCall' = Call("advancePeriod", 0, TRUE, 0)
  /\ UNCHANGED <<payments, profitVars, traderVars, engineVars, hostVars>>

\* ---------------------------------------------- cycles of the polling loop
\* Where a cycle can end early: getCurrentPrice throws, getAccountBalances
\* throws, the price is not a number, an alert sent from the analysis throws
\* after the snapshot, or nothing fails.
CycleFailures == {"price", "balances", "invalid", "alerts", "none"}

\* A variant that lets a price that is not a number through.
FetchFailedUnvalidated(failsAt) == failsAt \in {"price", "balances"}

\* The cycle is skipped before anything is recorded: a fetch threw (the catch
\* of analyzeTradingOpportunity returns null), or the price validation
\* returned; executeAutomatedTrading then returns false.
FetchFailed(failsAt) == failsAt \in {"price", "balances", "invalid"}

\* The prices the ticker gives a cycle of the loop: the lowest and the highest.
CycleQuotes == {1, MaxQuote}

\* What a returned cycle shows: where it ended, and what it fetched (price 0
\* when it had no price that is a number).
CycleRun(failsAt, price, btc) == [failsAt |-> failsAt, price |-> price, btc |-> btc]

\* A cycle started by startAutomatedTrading or by the timer returns.  A cycle
\* whose fetch failed changes nothing; one that fails after the snapshot has
\* recorded the balance, reconciled the ledger and tracked the BTC balance;
\* one that fails nowhere goes on as executeAutomatedTrading does.
CycleReturns ==
  /\ poller.running > 0
  /\ \E failsAt \in CycleFailures, price \in CycleQuotes, delay \in ActionDelays :
       LET gbp == exchange.gbp
           btc == exchange.btc
           skipped == FetchFailed(failsAt)
           analysed == failsAt = "none"
           tracker == IF skipped THEN profitTracker
                      ELSE RecordBalanceOp(profitTracker, TotalBalance(gbp, btc, price))
           currentProfit == CalculateRunningProfit(tracker)
           fell == ~skipped /\ BalanceFell(system.lastKnownBtcBalance, btc)
           tracked == IF skipped THEN system
                      ELSE IF analysed THEN TrackPrice(system, price, btc)
                      ELSE [system EXCEPT !.lastKnownBtcBalance = btc]
           d == DecisionOf(tracked, buyer, config, buyingHistory, tradingHistory,
                           now, price, gbp, btc, currentProfit)
           buys == analysed /\ d.shouldBuy
           sells == analysed /\ d.shouldSell /\ ~buys
           executed == buys \/ sells
           trade == IF buys
                      THEN ScheduledTrade("buy", MaxBuyAmount, now, now + delay)
                      ELSE ScheduledTrade("sell", SellAmount(btc), now, now + delay)
       IN  /\ skipped \/ Len(profitTracker.balanceHistory) < MaxCycles
           /\ profitTracker' = tracker
           /\ payments' = IF fell THEN CleanupPaymentsAfterSaleOp(payments, btc)
                                  ELSE payments
           /\ system' = IF analysed
                          THEN [tracked EXCEPT
                                  !.previousPrice = price,
                                  !.lastTradeTime = IF executed THEN now ELSE @]
                          ELSE tracked
           /\ buyer' = IF analysed THEN d.buyConditions.buyer ELSE buyer
           /\ scheduled' = IF executed THEN scheduled \cup {trade} ELSE scheduled
           /\ lastCall' = Call("cycleReturns",
                               CycleRun(failsAt, IF skipped THEN 0 ELSE price, btc),
                               TRUE, executed)
  /\ poller' = [poller EXCEPT !.running = @ - 1]
  /\ UNCHANGED <<now, snapshotsOnly, traderVars, exchange, config, timingVars, alerts, trading>>
  /\ balanceFile' = SavedIfCalled(balanceFile, profitTracker, profitTracker')

\* Time passes while neither the monitoring timer nor the timer of a trade is
\* due.
CycleClockTick ==
  /\ now < StartTime + MaxWait
  /\ poller.monitoringTimeout # {now}
  /\ \A trade \in scheduled : trade.due > now
  /\ now' = now + 1
  /\ lastCall' = Call("cycleClockTick", 0, TRUE, 0)
  /\ UNCHANGED <<payments, profitVars, traderVars, engineVars, hostVars>>

\* ---------------------------------------------------------- threshold alerts
\* thresholds.dropThresholds and riseThresholds of the alert configuration,
\* by price; each has the cooldown AlertCooldown.
AlertKinds == {"drop", "rise"}
ThresholdsOf(kind) == IF kind = "drop" THEN DropThresholds ELSE RiseThresholds

\* thresholdAlertHistory as checkMultiThresholdAlerts initialises it (the
\* counters it only counts left out), with the timers of the cooldown resets,
\* the analyses that are inside checkMultiThresholdAlerts, and the time the
\* latest alert of each threshold was sent.
NoAlerts ==
  [triggered |-> [kind \in AlertKinds |-> {}],
   resets    |-> {},
   checking  |-> {},
   sentAt    |-> [kind \in AlertKinds |-> [price \in ThresholdsOf(kind) |-> {}]]]

\* currentPrice <= threshold.price for a drop, >= for a rise.
Crossed(kind, currentPrice, threshold) ==
  IF kind = "drop" THEN currentPrice <= threshold ELSE currentPrice >= threshold

\* The thresholds of a kind for which the loop sends an alert.
Alertable(al, kind, currentPrice) ==
  {threshold \in ThresholdsOf(kind) :
     Crossed(kind, currentPrice, threshold) /\ threshold \notin al.triggered[kind]}

\* An analysis waiting in `await this.sendThresholdAlert(...)`.
Sending(analysis, kind, currentPrice, threshold) ==
  [analysis |-> analysis, kind |-> kind, price |-> currentPrice,
   threshold |-> threshold]

\* An alert as the claims see it: the threshold, when it was sent, and when
\* the alert before it for the same threshold was sent.
AlertSent(al, kind, threshold, t) ==
  [kind |-> kind, threshold |-> threshold, at |-> t,
   previous |-> al.sentAt[kind][threshold]]

\* The loops of checkMultiThresholdAlerts run on from a position (the drop
\* thresholds above `from`, then the rise thresholds, in ascending order) to
\* the first threshold whose alert is sent, where the analysis waits for the
\* send; with none left the call returns.
NextAlert(al, kind, from, currentPrice) ==
  LET here == {threshold \in Alertable(al, kind, currentPrice) : threshold > from}
      rises == Alertable(al, "rise", currentPrice)
  IN  IF here # {}
        THEN [found |-> TRUE, kind |-> kind,
              threshold |-> CHOOSE x \in here : \A y \in here : x <= y]
      ELSE IF kind = "drop" /\ rises # {}
        THEN [found |-> TRUE, kind |-> "rise",
              threshold |-> CHOOSE x \in rises : \A y \in rises : x <= y]
      ELSE [found |-> FALSE, kind |-> kind, threshold |-> 0]

\* The analysis goes on from a position: to its next send, or out of the call.
ContinueCheck(al, analysis, kind, from, currentPrice, t) ==
  LET next == NextAlert(al, kind, from, currentPrice)
  IN  IF next.found
        THEN [alerts |-> [al EXCEPT
                !.checking = @ \cup {Sending(analysis, next.kind, currentPrice,
                                             next.threshold)},
                !.sentAt[next.kind][next.threshold] = {t}],
              call |-> Call("sendThresholdAlert",
                            AlertSent(al, next.kind, next.threshold, t), TRUE, 1)]
        ELSE [alerts |-> al,
              call |-> Call("checkAlerts", currentPrice, TRUE, 0)]

\* An analysis calls checkMultiThresholdAlerts with the price it fetched, and
\* runs to its first await.
CheckMultiThresholdAlerts ==
  \E analysis \in 1 .. MaxAnalyses, currentPrice \in 1 .. MaxQuote :
    /\ \A c \in alerts.checking : c.analysis # analysis
    /\ LET r == ContinueCheck(alerts, analysis, "drop", 0, currentPrice, now)
       IN  /\ alerts' = r.alerts
           /\ lastCall' = r.call
    /\ UNCHANGED <<ledgerVars, profitVars, traderVars, decisionVars, timingVars,
                   poller, scheduled, hostVars>>

\* The send returns (or failed and was logged): the threshold is added to the
\* triggered set, the timer of its cooldown reset is set, and the loops go on.
ThresholdAlertReturns ==
  \E c \in alerts.checking :
    LET marked == [alerts EXCEPT
                     !.checking = @ \ {c},
                     !.triggered[c.kind] = @ \cup {c.threshold},
                     !.resets = @ \cup {[kind |-> c.kind, threshold |-> c.threshold,
                                         due |-> now + AlertCooldown]}]
        r == ContinueCheck(marked, c.analysis, c.kind, c.threshold, c.price, now)
    IN  /\ alerts' = r.alerts
        /\ lastCall' = IF r.call.op = "sendThresholdAlert" THEN r.call
                       ELSE Call("alertReturns", c.threshold, TRUE, 0)
        /\ UNCHANGED <<ledgerVars, profitVars, traderVars, decisionVars, timingVars,
                       poller, scheduled, hostVars>>

\* The timer of a cooldown reset runs: the threshold is deleted from the
\* triggered set.
CooldownReset ==
  \E reset \in alerts.resets :
    /\ reset.due = now
    /\ alerts' = [alerts EXCEPT !.resets = @ \ {reset},
                                !.triggered[reset.kind] = @ \ {reset.threshold}]
    /\ lastCall' = Call("cooldownReset", reset.threshold, TRUE, 0)
    /\ UNCHANGED <<ledgerVars, profitVars, traderVars, decisionVars, timingVars,
                   poller, scheduled, hostVars>>

\* Time passes while no cooldown timer is due.
AlertClockTick ==
  /\ now < MaxAlertTime
  /\ \A reset \in alerts.resets : reset.due > now
  /\ now' = now + 1
  /\ lastCall' = Call("alertClockTick", 0, TRUE, 0)
  /\ UNCHANGED <<payments, profitVars, traderVars, engineVars, hostVars>>

\* No polling, no delayed trade, no alert state.
\* ----------------------------------------------------------- order placement
\* What the configuration can hold for dryRun: nothing, true, false, or a
\* value that is not a boolean (the string 'false', 0, null).
DryRunSettings == {"undefined", "true", "false", "other"}

\* The three credentials of the exchange, from the configuration or the
\* environment.
AllCredentials == {"apiKey", "apiSecret", "passphrase"}

\* A variant that reads dryRun by its truthiness: only true is a dry run.
DryRunOnlyWhenTrue(setting) == setting = "true"

\* config.dryRun !== false
DryRunOf(setting) == setting # "false"

\* The constructors: UnifiedTradingSystem hands its dryRun to the buyer and to
\* the seller, which each apply `!== false` again and force dry run when a
\* credential is missing.  No request sent yet, no order made.
NewTrading(setting, credentials) ==
  LET systemDryRun == DryRunOf(setting)
      traderDryRun == IF credentials # AllCredentials THEN TRUE
                      ELSE DryRunOf(IF systemDryRun THEN "true" ELSE "false")
  IN  [setting |-> setting, credentials |-> credentials,
       buyerDryRun |-> traderDryRun, sellerDryRun |-> traderDryRun,
       posted |-> 0, order |-> {}]

\* Where createBuyOrder and createSellOrder can throw: the price fetch, the
\* limit checks, the request to POST /orders.
OrderStages == {"price", "limit", "request", "none"}

\* An order as the caller gets it: simulated is true on the simulated order
\* only, the exchange's answer carries no such mark.
Order(side, simulated) == [side |-> side, simulated |-> simulated]

\* createBuyOrder and createSellOrder after the price fetch and the limit
\* checks: in dry run the simulated order, otherwise the request, and the
\* exchange's order when the request succeeds.
CreateOrder(tr, side, dryRun, failsAt) ==
  IF failsAt \in {"price", "limit"} THEN [tr EXCEPT !.order = {}]
  ELSE IF dryRun THEN [tr EXCEPT !.order = {Order(side, TRUE)}]
  ELSE [tr EXCEPT !.posted = @ + 1,
                  !.order = IF failsAt = "request" THEN {} ELSE {Order(side, FALSE)}]

\* What a call that made no order has thrown.
OrderThrew(tr, dryRun, failsAt) ==
  failsAt \in {"price", "limit"} \/ (~dryRun /\ failsAt = "request")

\* createBuyOrder
CreateBuyOrder ==
  /\ trading.posted < MaxOrders
  /\ \E failsAt \in OrderStages :
       /\ trading' = CreateOrder(trading, "buy", trading.buyerDryRun, failsAt)
       /\ lastCall' = Call("createBuyOrder", failsAt,
                           ~OrderThrew(trading, trading.buyerDryRun, failsAt), 0)
  /\ UNCHANGED <<ledgerVars, profitVars, traderVars, engineVars, balanceFile>>

\* createSellOrder
CreateSellOrder ==
  /\ trading.posted < MaxOrders
  /\ \E failsAt \in OrderStages :
       /\ trading' = CreateOrder(trading, "sell", trading.sellerDryRun, failsAt)
       /\ lastCall' = Call("createSellOrder", failsAt,
                           ~OrderThrew(trading, trading.sellerDryRun, failsAt), 0)
  /\ UNCHANGED <<ledgerVars, profitVars, traderVars, engineVars, balanceFile>>

\* Both traders as built with no dryRun setting and no credentials, and no
\* balance file written.
HostIdle ==
  /\ trading = NewTrading("undefined", {})
  /\ balanceFile = <<>>

AutomationIdle ==
  /\ HostIdle
  /\ poller = NewPoller([enabled |-> TRUE, minInterval |-> 1, maxInterval |-> 1,
                         minGapBetweenChecks |-> 1])
  /\ scheduled = {}
  /\ alerts = NoAlerts

\* No decision state: the buyer and the system as constructed, an empty account.
EngineIdle ==
  /\ buyer = NewBuyer
  /\ system = NewSystem
  /\ exchange = [gbp |-> 0, btc |-> 0]
  /\ config = DefaultConfig
  /\ TimingIdle
  /\ AutomationIdle

\* ------------------------------------------------------------ specifications
\* After construction with no data files: an empty ledger and an empty tracker.
Init ==
  /\ payments = <<>>
  /\ now = 0
  /\ profitTracker = NewTracker("progressive")
  /\ snapshotsOnly = TRUE
  /\ NoOrders
  /\ EngineIdle
  /\ lastCall = Call("none", 0, TRUE, 0)

Next ==
  \/ RecordPayment
  \/ CleanupPaymentsAfterSale
  \/ SellIndividualPayment

\* The lot ledger: lots recorded, reconciled against a balance, sold one by one.
Spec == Init /\ [][Next]_vars

\* The cost basis of a sale, over ledgers of recorded and sold lots.
CostNext ==
  \/ RecordPayment
  \/ SellIndividualPayment
  \/ SellAnalysis

CostSpec == Init /\ [][CostNext]_vars

\* The profit account, under each milestone mode.
ProfitInit ==
  /\ payments = <<>>
  /\ now = 0
  /\ \E mode \in MilestoneModes : profitTracker = NewTracker(mode)
  /\ snapshotsOnly = TRUE
  /\ NoOrders
  /\ EngineIdle
  /\ lastCall = Call("none", 0, TRUE, 0)

ProfitNext ==
  \/ RecordBalance
  \/ RecordTrade
  \/ SetInitialBalance
  \/ ResetProfitTracking

ProfitSpec == ProfitInit /\ [][ProfitNext]_vars

\* The scheduled buy and sell actions.  The ledger is as loaded from its file:
\* empty, or the one seed lot a reset writes.
SeedLedger == {<<>>, RecordPaymentOp(<<>>, 0, MaxGbp, MaxBtc)}

TraderInit ==
  /\ payments \in SeedLedger
  /\ now = 1
  /\ profitTracker = NewTracker("progressive")
  /\ snapshotsOnly = TRUE
  /\ NoOrders
  /\ EngineIdle
  /\ lastCall = Call("none", 0, TRUE, 0)

TraderNext ==
  \/ BuyAction
  \/ SellAction

TraderSpec == TraderInit /\ [][TraderNext]_vars

\* The decision engine.  The buyer is as loaded from its files: the purchases
\* of today (the last of them one cooldown period ago) and the last sell
\* price, if the metadata file holds one.  The account and the switches of the
\* configuration are any.
LoadedPurchases ==
  LET purchase == [type |-> "buy", gbpAmount |-> MaxBuyAmount, status |-> "completed"]
  IN  {<<>>, <<purchase>>, <<purchase, purchase>>}

DecisionInit ==
  /\ payments = <<>>
  /\ now = StartTime
  /\ profitTracker = NewTracker("progressive")
  /\ snapshotsOnly = TRUE
  /\ buyingHistory \in LoadedPurchases
  /\ tradingHistory = <<>>
  /\ buyerTracker = NewTracker("progressive")
  /\ sellerTracker = NewTracker("progressive")
  /\ \E lastSellPrice \in {NoSell} \cup {{p} : p \in 1 .. MaxQuote} :
       buyer = [NewBuyer EXCEPT
                  !.lastSellPrice = lastSellPrice,
                  !.lastBuyTime = IF buyingHistory = <<>> THEN 0
                                  ELSE StartTime - CooldownBetweenTrades]
  /\ system = NewSystem
  /\ exchange \in [gbp : 0 .. MaxFiat, btc : 0 .. MaxHolding]
  /\ config \in Configs
  /\ TimingIdle
  /\ AutomationIdle
  /\ lastCall = Call("none", 0, TRUE, 0)

DecisionNext ==
  \/ AnalyzeTradingOpportunity
  \/ TradeScheduled
  \/ Tick

DecisionSpec == DecisionInit /\ [][DecisionNext]_vars

\* The timing controller, built with any configuration at any hour of the week.
TimingInit ==
  /\ payments = <<>>
  /\ now = 0
  /\ profitTracker = NewTracker("progressive")
  /\ snapshotsOnly = TRUE
  /\ NoOrders
  /\ buyer = NewBuyer
  /\ system = NewSystem
  /\ exchange = [gbp |-> 0, btc |-> 0]
  /\ config = DefaultConfig
  /\ calendar \in 0 .. (HoursPerWeek - 1)
  /\ \E cfg \in TimingConfigs : controller = NewController(cfg)
  /\ timers = {}
  /\ observed = NothingObserved
  /\ AutomationIdle
  /\ lastCall = Call("none", 0, TRUE, 0)

TimingNext ==
  \/ ScheduleAction
  \/ ExecuteScheduledAction
  \/ RescheduleAction
  \/ CancelAllPending
  \/ AdvanceHour

TimingSpec == TimingInit /\ [][TimingNext]_vars

\* The polling loop, built with any polling configuration.
PollingInit ==
  /\ payments = <<>>
  /\ now = 1
  /\ profitTracker = NewTracker("progressive")
  /\ snapshotsOnly = TRUE
  /\ NoOrders
  /\ buyer = NewBuyer
  /\ system = NewSystem
  /\ exchange = [gbp |-> 0, btc |-> 0]
  /\ config = DefaultConfig
  /\ TimingIdle
  /\ \E cfg \in PollingConfigs : poller = NewPoller(cfg)
  /\ scheduled = {}
  /\ alerts = NoAlerts
  /\ HostIdle
  /\ lastCall = Call("none", 0, TRUE, 0)

PollingNext ==
  \/ StartAutomatedTrading
  \/ PollTimerFires
  \/ CycleCompletes
  \/ StopAutomatedTrading
  \/ PollClockTick

PollingSpec == PollingInit /\ [][PollingNext]_vars

\* Polling cycles and the trades they schedule.  The buyer is as loaded from
\* its files, with a last sell price; the account holds GBP, or BTC.
AutomationInit ==
  /\ payments = <<>>
  /\ now = StartTime
  /\ profitTracker = NewTracker("progressive")
  /\ snapshotsOnly = TRUE
  /\ buyingHistory \in LoadedPurchases
  /\ tradingHistory = <<>>
  /\ buyerTracker = NewTracker("progressive")
  /\ sellerTracker = NewTracker("progressive")
  /\ buyer = [NewBuyer EXCEPT
                !.lastSellPrice = {MaxQuote},
                !.lastBuyTime = IF buyingHistory = <<>> THEN 0
                                ELSE StartTime - CooldownBetweenTrades]
  /\ system = NewSystem
  /\ exchange \in {[gbp |-> MaxFiat, btc |-> 0], [gbp |-> 0, btc |-> MaxHolding]}
  /\ config = DefaultConfig
  /\ TimingIdle
  /\ AutomationIdle
  /\ lastCall = Call("none", 0, TRUE, 0)

AutomationNext ==
  \/ ExecuteAutomatedTrading
  \/ RunScheduledBuy
  \/ RunScheduledSell
  \/ AdvancePeriod

AutomationSpec == AutomationInit /\ [][AutomationNext]_vars

\* The polling loop with its cycles and the trades they schedule.
CycleNext ==
  \/ StartAutomatedTrading
  \/ PollTimerFires
  \/ CycleReturns
  \/ StopAutomatedTrading
  \/ RunScheduledBuy
  \/ RunScheduledSell
  \/ CycleClockTick

\* The loop is started on a system with no purchase of today.
CycleInit == AutomationInit /\ buyingHistory = <<>>

CycleSpec == CycleInit /\ [][CycleNext]_vars

\* The three ProfitTracker instances of a running system, which write the
\* same balance file: the orchestrator records a snapshot at each analysis,
\* the buyer after a purchase, the seller after a sale.
SharedFileNext ==
  \/ RecordBalance
  \/ BuyAction
  \/ SellAction

SharedFileSpec == TraderInit /\ [][SharedFileNext]_vars

\* The account's BTC balance changes between analyses: an external sale, a
\* withdrawal or a deposit.
BalanceChanges ==
  /\ \E btc \in (0 .. MaxBtc) \ {exchange.btc} :
       /\ exchange' = [exchange EXCEPT !.btc = btc]
       /\ lastCall' = Call("balanceChanges", btc, TRUE, 0)
  /\ UNCHANGED <<ledgerVars, profitVars, traderVars, buyer, system, config,
                 timingVars, automationVars, hostVars>>

\* Analyses of an account whose BTC balance moves, against a ledger as loaded
\* from its file.
ReconcileInit ==
  /\ payments \in SeedLedger
  /\ now = StartTime
  /\ profitTracker = NewTracker("progressive")
  /\ snapshotsOnly = TRUE
  /\ NoOrders
  /\ buyer = NewBuyer
  /\ system = NewSystem
  /\ exchange \in [gbp : {0}, btc : 0 .. MaxBtc]
  /\ config = DefaultConfig
  /\ TimingIdle
  /\ AutomationIdle
  /\ lastCall = Call("none", 0, TRUE, 0)

ReconcileNext ==
  \/ AnalyzeTradingOpportunity
  \/ BalanceChanges

ReconcileSpec == ReconcileInit /\ [][ReconcileNext]_vars

\* The traders built with any dryRun setting and any credentials.
OrderInit ==
  /\ payments = <<>>
  /\ now = 0
  /\ profitTracker = NewTracker("progressive")
  /\ snapshotsOnly = TRUE
  /\ NoOrders
  /\ buyer = NewBuyer
  /\ system = NewSystem
  /\ exchange = [gbp |-> 0, btc |-> 0]
  /\ config = DefaultConfig
  /\ TimingIdle
  /\ poller = NewPoller([enabled |-> TRUE, minInterval |-> 1, maxInterval |-> 1,
                         minGapBetweenChecks |-> 1])
  /\ scheduled = {}
  /\ alerts = NoAlerts
  /\ \E setting \in DryRunSettings, credentials \in SUBSET AllCredentials :
       trading = NewTrading(setting, credentials)
  /\ balanceFile = <<>>
  /\ lastCall = Call("none", 0, TRUE, 0)

OrderNext ==
  \/ CreateBuyOrder
  \/ CreateSellOrder

OrderSpec == OrderInit /\ [][OrderNext]_vars

\* The threshold alerts, checked by analyses that can overlap.
AlertNext ==
  \/ CheckMultiThresholdAlerts
  \/ ThresholdAlertReturns
  \/ CooldownReset
  \/ AlertClockTick

AlertSpec == Init /\ [][AlertNext]_vars

\* ------------------------------------------------------------ ledger claims
\* The oldest active lot: the one the sorted walk meets first.
OldestActive(ps) ==
  CHOOSE i \in ActiveIdx(ps) : \A j \in ActiveIdx(ps) \ {i} : OlderThan(ps, i, j)

\* C1: when every lot is active (the ledger holds recordPayment's lots only,
\* total T) and cleanupPaymentsAfterSale(B) is called with 0 < B < T, the
\* amounts of the active and partial lots afterwards sum to B, within the
\* dust tolerance.
C1_RemainingSumIsBalance ==
  [][ (/\ CleanupStep
       /\ lastCall'.result = Len(payments)
       /\ 0 < lastCall'.arg
       /\ lastCall'.arg < TotalActive(payments))
      => LET d == TotalLive(payments') - lastCall'.arg
         IN  -Dust <= d /\ d <= Dust ]_vars

\* C1 happens: two active lots, and a balance one unit above the first lot; the
\* second lot's leftover is dust, so it is consumed and the sum is B - 1e-8.
C1_Witness ==
  /\ lastCall.op = "cleanup"
  /\ Len(payments) = 2
  /\ lastCall.result = 2
  /\ payments[1].status = "active"
  /\ payments[2].status = "consumed"
  /\ lastCall.arg = payments[1].btcAmount + Dust
  /\ TotalLive(payments) = lastCall.arg - Dust

\* C2: cleanupPaymentsAfterSale(B) with B > 0 walks the active lots oldest
\* first: a lot whose running total stays <= B is left active and unchanged;
\* the first lot whose running total exceeds B is truncated to the leftover and
\* marked partial, or marked consumed when the leftover is dust; every later
\* active lot is marked consumed.
C2_OldestFirstWalk ==
  [][ (CleanupStep /\ lastCall'.arg > 0)
      => /\ Len(payments') = Len(payments)
         /\ \A i \in ActiveIdx(payments) :
              LET B == lastCall'.arg
                  through == RunningTotalThrough(payments, i, 1)
                  before == through - payments[i].btcAmount
              IN  IF through <= B
                    THEN payments'[i] = payments[i]
                  ELSE IF before <= B
                    THEN IF B - before > Dust
                           THEN payments'[i] =
                                  [payments[i] EXCEPT !.btcAmount = B - before,
                                                      !.status = "partial"]
                           ELSE payments'[i] =
                                  [payments[i] EXCEPT !.status = "consumed"]
                  ELSE payments'[i] = [payments[i] EXCEPT !.status = "consumed"] ]_vars

\* C2 happens: of two active lots the older fits in B and stays active, the
\* newer is truncated to what is left of B and marked partial.
C2_Witness ==
  /\ lastCall.op = "cleanup"
  /\ Len(payments) = 2
  /\ lastCall.result = 2
  /\ payments[1].status = "active"
  /\ payments[2].status = "partial"
  /\ payments[2].btcAmount = lastCall.arg - payments[1].btcAmount

\* C3: reconciliation depletes the oldest lots first: after
\* cleanupPaymentsAfterSale(B) with 0 < B < total active amount, no lot older
\* than a lot the call truncated or consumed is left active with its full
\* amount.
C3_OldestDepletedFirst ==
  [][ (/\ CleanupStep
       /\ 0 < lastCall'.arg
       /\ lastCall'.arg < TotalActive(payments))
      => \A i, j \in ActiveIdx(payments) :
           (payments'[i] # payments[i] /\ OlderThan(payments, j, i))
             => payments'[j] # payments[j] ]_vars

\* C4 as stated, for a balance above dust: with Dust < B < the oldest active
\* lot's amount, the oldest lot becomes partial with amount B and every newer
\* active lot stays active with its full amount.
C4_NewerLotsUntouched ==
  [][ (/\ CleanupStep
       /\ ActiveIdx(payments) # {}
       /\ Dust < lastCall'.arg
       /\ lastCall'.arg < payments[OldestActive(payments)].btcAmount)
      => LET o == OldestActive(payments)
         IN  /\ payments'[o] = [payments[o] EXCEPT !.btcAmount = lastCall'.arg,
                                                   !.status = "partial"]
             /\ \A i \in ActiveIdx(payments) \ {o} : payments'[i] = payments[i] ]_vars

\* C4, as the code has it: with 0 < B < the oldest active lot's amount, the
\* oldest lot becomes partial with amount B (consumed, its amount kept, when B
\* is dust) and every newer active lot is marked consumed.
C4_NewerLotsConsumed ==
  [][ (/\ CleanupStep
       /\ ActiveIdx(payments) # {}
       /\ 0 < lastCall'.arg
       /\ lastCall'.arg < payments[OldestActive(payments)].btcAmount)
      => LET o == OldestActive(payments)
         IN  /\ payments'[o] =
                  IF lastCall'.arg > Dust
                    THEN [payments[o] EXCEPT !.btcAmount = lastCall'.arg,
                                             !.status = "partial"]
                    ELSE [payments[o] EXCEPT !.status = "consumed"]
             /\ \A i \in ActiveIdx(payments) \ {o} :
                  payments'[i] = [payments[i] EXCEPT !.status = "consumed"] ]_vars

\* C4 happens: two active lots and a balance below the older one; the older is
\* partial with amount B and the newer is consumed.
C4_Witness ==
  /\ lastCall.op = "cleanup"
  /\ Len(payments) = 2
  /\ lastCall.result = 2
  /\ payments[1].status = "partial"
  /\ payments[1].btcAmount = lastCall.arg
  /\ payments[2].status = "consumed"

\* C5: cleanupPaymentsAfterSale is idempotent: in every ledger state and for
\* every B, a second cleanupPaymentsAfterSale(B) straight after the first
\* changes no lot.
C5_CleanupIdempotent ==
  [][ (CleanupStep /\ lastCall'.again) => payments' = payments ]_vars

\* C5 happens: the call has been repeated on a ledger the first call changed
\* (a lot truncated, a lot consumed).
C5_Witness ==
  /\ lastCall.op = "cleanup"
  /\ lastCall.again
  /\ lastCall.arg > 0
  /\ \E i, j \in 1 .. Len(payments) :
       payments[i].status = "partial" /\ payments[j].status = "consumed"

\* C6: the cost basis computed for a sell amount equal to the total amount of
\* the active lots is the sum of gbpAmount over the active lots, and computing
\* it changes no lot.
C6_CostBasisConservation ==
  [][ (lastCall'.op = "costBasis" /\ lastCall'.arg = TotalActive(payments))
      => /\ lastCall'.result = TotalActiveCost(payments)
         /\ payments' = payments ]_vars

\* C6 happens: the cost basis of a full liquidation of two active lots.
C6_Witness ==
  /\ lastCall.op = "costBasis"
  /\ Cardinality(ActiveIdx(payments)) = 2
  /\ lastCall.arg = TotalActive(payments)
  /\ lastCall.result = TotalActiveCost(payments)

\* ------------------------------------------------------------ trader claims
\* C7: every automated buy whose executeBTCPurchase returns normally records
\* exactly one new lot, with status active, in the ledger.
C7_BuyRecordsOneLot ==
  [][ (lastCall'.op = "buyAction" /\ lastCall'.ok)
      => /\ Len(payments') = Len(payments) + 1
         /\ payments'[Len(payments')].status = "active"
         /\ SubSeq(payments', 1, Len(payments)) = payments ]_vars

\* C8 as stated: when the buy or sell call of a scheduled action throws, no
\* lot is recorded, truncated or consumed, and no purchase, trade or snapshot
\* is logged.
C8_NothingLoggedOnFailure ==
  [][ (lastCall'.op \in {"buyAction", "sellAction"} /\ ~lastCall'.ok)
      => /\ payments' = payments
         /\ buyingHistory' = buyingHistory
         /\ tradingHistory' = tradingHistory
         /\ buyerTracker'.balanceHistory = buyerTracker.balanceHistory
         /\ sellerTracker'.balanceHistory = sellerTracker.balanceHistory ]_vars

\* C8, as the code has it: when the buy or sell call of a scheduled action
\* throws, no lot is recorded, truncated or consumed and no snapshot is
\* logged; and unless the order had been placed before the error, no purchase
\* or trade is logged and no profit record is written.
C8_NothingLoggedBeforeOrder ==
  [][ (lastCall'.op \in {"buyAction", "sellAction"} /\ ~lastCall'.ok)
      => /\ payments' = payments
         /\ buyerTracker'.balanceHistory = buyerTracker.balanceHistory
         /\ sellerTracker'.balanceHistory = sellerTracker.balanceHistory
         /\ lastCall'.result = 0
              => /\ buyingHistory' = buyingHistory
                 /\ tradingHistory' = tradingHistory
                 /\ buyerTracker' = buyerTracker
                 /\ sellerTracker' = sellerTracker ]_vars

\* C8 happens: a scheduled sale has thrown before its order was placed, with
\* a lot in the ledger and an earlier purchase logged.
C8_Witness ==
  /\ lastCall.op = "sellAction"
  /\ ~lastCall.ok
  /\ lastCall.result = 0
  /\ Len(payments) = 1
  /\ Len(buyingHistory) = 1
  /\ Len(buyerTracker.balanceHistory) = 1

\* ------------------------------------------------------------ profit claims
\* C9: over recordBalance calls alone from a tracker with no baseline, the
\* first snapshot has profitLoss 0 and its total is the baseline, and every
\* later snapshot has profitLoss equal to its total minus that baseline; a
\* first total of 0 included.
C9_ProfitBaseline ==
  (snapshotsOnly /\ Len(profitTracker.balanceHistory) > 0)
    => LET h == profitTracker.balanceHistory
       IN  /\ h[1].profitLoss = 0
           /\ profitTracker.initialBalance = {h[1].totalBalance}
           /\ \A i \in 2 .. Len(h) :
                h[i].profitLoss = h[i].totalBalance - h[1].totalBalance

\* C10: in static mode, over profit snapshots alone, the milestone events are
\* as many as the upward crossings of the static amount: the snapshots at or
\* above it that follow none or one below it.
C10_StaticFiresOnCrossings ==
  (snapshotsOnly /\ profitTracker.milestoneMode = "static")
    => LET h == profitTracker.balanceHistory
       IN  MilestoneCount(profitTracker) =
             Cardinality({i \in 1 .. Len(h) :
                            /\ h[i].profitLoss >= StaticMilestoneAmount
                            /\ (i = 1 \/ h[i - 1].profitLoss < StaticMilestoneAmount)})

\* C11: in progressive and fixed modes, whatever profit updates (snapshots,
\* trades, baseline changes) have happened since the last reset, profitHistory
\* holds at most one milestone record for each milestone value.
C11_MilestoneRecordedOnce ==
  profitTracker.milestoneMode \in {"progressive", "fixed"}
    => \A i, j \in 1 .. Len(profitTracker.profitHistory) :
         LET h == profitTracker.profitHistory
         IN  (/\ h[i].type = "milestone"
              /\ h[j].type = "milestone"
              /\ h[i].milestone = h[j].milestone) => i = j

\* C11 happens: in progressive or fixed mode two snapshots in a row show a
\* profit at or above a milestone that is recorded, once.
C11_Witness ==
  /\ profitTracker.milestoneMode \in {"progressive", "fixed"}
  /\ MilestoneCount(profitTracker) = 1
  /\ LET h == profitTracker.balanceHistory
         m == profitTracker.profitHistory[1].milestone
     IN  /\ Len(h) = 3
         /\ profitTracker.profitHistory[1].type = "milestone"
         /\ h[2].profitLoss >= m
         /\ h[3].profitLoss >= m

\* ---------------------------------------------------------- decision claims
\* The state just after an analysis that reached its decisions.  The analysis
\* leaves the clock, the account, the histories, lastSellPrice, lastBuyTime and
\* lastTradeTime as they were, so they are read here as the analysis read them.
Analysed == lastCall.op = "analyze" /\ lastCall.ok
BuyChecked == Analysed /\ lastCall.result.buyConditions.checked

\* A buy trigger holds at the analysed price: the price threshold, the drop
\* from the recent high, or a support level within 1%.
BuyTriggerHolds ==
  LET price == lastCall.arg.price
  IN  \/ price <= BuyPriceThreshold
      \/ /\ buyer.recentHigh > 0
         /\ (buyer.recentHigh - price) * 100 >= PercentageDrop * buyer.recentHigh
      \/ \E level \in SupportLevels : Abs(price - level) * 100 <= level

\* The gates of a buy other than the post-sell drop.
BuyLimitsHold ==
  /\ exchange.gbp >= MaxBuyAmount + MinAccountBalance
  /\ GetTodaysBuyingAmount(buyingHistory, 1) + MaxBuyAmount <= MaxDailyBuying
  /\ GetTodaysBuyingTradeCount(buyingHistory) < MaxDailyBuyTrades
  /\ now - buyer.lastBuyTime >= MinimumGapBetweenBuys
  /\ exchange.btc < MaxBtcHolding

C13_SellStoresLastSellPrice ==
  (lastCall.op = "sellAction" /\ lastCall.result = 1)
    => \E s \in 1 .. MaxQuote :
         buyer.lastSellPrice = UpdateLastSellPrice(buyer, s).lastSellPrice

\* C14: whenever checkBuyingConditions returns shouldBuy = true, a buy trigger
\* holds, the available GBP covers maxBuyAmount + minAccountBalance, today's
\* spend and buy count are within the daily limits, the minimum gap since the
\* last buy has elapsed, the BTC holding is below the maximum, and the price
\* has dropped from the last sell price by the post-sell threshold.
C14_BuyOnlyOnTriggerAndGates ==
  (BuyChecked /\ lastCall.result.buyConditions.shouldBuy)
    => /\ BuyTriggerHolds
       /\ BuyLimitsHold
       /\ buyer.lastSellPrice # NoSell
       /\ ValueOf(buyer.lastSellPrice) - lastCall.arg.price >= PostSellDropThreshold
C14_Witness ==
  /\ BuyChecked /\ lastCall.result.buyConditions.shouldBuy
  /\ lastCall.result.shouldBuy
  /\ ~lastCall.result.buyConditions.priceThreshold

\* The sell triggers the decision can fire on, at the analysed price: the four
\* listed ones, and the BTC profit target.
ListedSellTrigger ==
  LET price == lastCall.arg.price
  IN  \/ price >= SellPriceThreshold
      \/ NetOfFeesAtLeast(lastCall.arg.currentProfit, exchange.btc * price, ProfitTarget)
      \/ (price - system.recentLow) * 100 >= PercentageGain * system.recentLow
      \/ /\ config.stopLoss /\ system.recentHigh > 0
         /\ (system.recentHigh - price) * 100 >= StopLossPercent * system.recentHigh
BtcProfitTrigger ==
  LET value == exchange.btc * lastCall.arg.price
  IN  NetOfFeesAtLeast(value - InitialBtcValue, value, BtcProfitTarget)
SellGatesHold ==
  /\ config.sellingEnabled
  /\ exchange.btc > 0
  /\ CanTrade(system, now, buyingHistory, tradingHistory)

\* C15 as stated: in a cycle, shouldSell is true exactly when selling is
\* enabled, BTC is available, canTrade() holds and one of the four listed sell
\* triggers holds.
C15_SellExactlyOnListedTriggers ==
  Analysed => (lastCall.result.shouldSell <=> (SellGatesHold /\ ListedSellTrigger))

\* C15, amended: in a cycle, shouldSell is true exactly when selling is
\* enabled, BTC is available, canTrade() holds and one of five triggers holds:
\* the four listed ones or the BTC profit target (the value of the holding,
\* less the fixed initial value and the estimated fees, reaching
\* btcProfitTarget).
C15_SellExactlyOnFiveTriggers ==
  Analysed => (lastCall.result.shouldSell
                 <=> (SellGatesHold /\ (ListedSellTrigger \/ BtcProfitTrigger)))
C15_Witness ==
  /\ Analysed /\ lastCall.result.shouldSell
  /\ lastCall.result.reasons = <<"btcProfitTarget">>
  /\ ~ListedSellTrigger

\* C16: an analysis decides as a first analysis would with the same price,
\* balances, profit and configuration (and the same clock, histories and
\* stored sell price): the analyses made before it do not change
\* (shouldBuy, shouldSell, reasons).
C16_DecisionIndependentOfEarlierAnalyses ==
  Analysed =>
    LET i == lastCall.arg
        d == lastCall.result
        first == DecisionOf(
                   TrackPrice([NewSystem EXCEPT !.lastTradeTime = system.lastTradeTime],
                              i.price, i.btc),
                   [buyer EXCEPT !.recentHigh = 0], config, buyingHistory,
                   tradingHistory, now, i.price, i.gbp, i.btc, i.currentProfit)
    IN  <<d.shouldBuy, d.shouldSell, d.reasons>>
          = <<first.shouldBuy, first.shouldSell, first.reasons>>

\* ------------------------------------------------------------ timing claims
\* The state just after a call that evaluated isTradingAllowed for an action;
\* the gate check leaves the calendar and the configuration as they were.
GateChecked ==
  /\ lastCall.op \in {"scheduleAction", "executeScheduledAction", "reschedule"}
  /\ lastCall.arg.checked

\* The price of the checked action is a jump from the price recorded before
\* the check.
JumpSinceRecorded ==
  /\ Truthy(lastCall.arg.recordedBefore)
  /\ PriceJumped(lastCall.arg.price, ValueOf(lastCall.arg.recordedBefore))

\* The emergency override is in effect for the checked action.
OverrideInEffect ==
  /\ controller.config.overrideEnabled
  /\ controller.config.allowSellOnly => lastCall.arg.type = "sell"
  /\ JumpSinceRecorded

\* Saturday or Sunday, or an hour outside [start, end).
OutsideWindow ==
  \/ Day(calendar) \in {0, 6}
  \/ Hour(calendar) < TradingHoursStart
  \/ Hour(calendar) >= TradingHoursEnd

\* C17: with timing control, trading hours and weekend avoidance enabled and
\* no emergency override in effect, every isTradingAllowed check made on a
\* Saturday or Sunday or at an hour outside [start, end) returns false, for a
\* buy and for a sell.
C17_ClosedOutsideWindow ==
  (/\ GateChecked
   /\ controller.config.enabled
   /\ controller.config.tradingHoursEnabled
   /\ controller.config.avoidWeekends
   /\ ~OverrideInEffect
   /\ OutsideWindow)
    => ~lastCall.arg.allowed
C17_Witness ==
  /\ GateChecked /\ controller.config.enabled
  /\ controller.config.overrideEnabled /\ ~OverrideInEffect
  /\ lastCall.arg.type = "sell"
  /\ Truthy(lastCall.arg.recordedBefore)
  /\ Day(calendar) = 6
  /\ ~lastCall.arg.allowed

\* C18: with allowSellOnly set, a check whose price is a jump of at least
\* priceJumpThreshold from the last recorded price returns true for a sell
\* (the override being enabled), also outside the trading window; for a buy
\* it returns what the day and the hour alone give, as without a jump.
C18_OverrideOnlyForSell ==
  (GateChecked /\ controller.config.allowSellOnly /\ JumpSinceRecorded)
    => /\ (lastCall.arg.type = "sell" /\ controller.config.overrideEnabled)
            => lastCall.arg.allowed
       /\ lastCall.arg.type = "buy"
            => (lastCall.arg.allowed <=> ~OutsideWindow)
C18_Witness ==
  /\ GateChecked /\ controller.config.allowSellOnly /\ JumpSinceRecorded
  /\ controller.config.overrideEnabled
  /\ lastCall.arg.type = "sell"
  /\ OutsideWindow
  /\ lastCall.arg.allowed

\* C19: an action whose check at execution time was negative is kept until it
\* runs: unless cancelled, it has run, or is pending, or waits for the timer of
\* its reschedule.
C19_DeferredActionKept ==
  \A id \in observed.deferred :
    \/ id \in observed.ran
    \/ id \in observed.cancelled
    \/ \E a \in controller.pendingActions : a.id = id
    \/ \E t \in timers : t.kind = "reschedule" /\ t.id = id

\* C20: no action that was pending or waiting for its reschedule when
\* cancelAllPending() was called ever runs its callback.
C20_CancelledNeverRuns == observed.cancelled \cap observed.ran = {}

\* ----------------------------------------------------------- polling claims
\* C21: polling cycles never overlap: at any time at most one
\* executeAutomatedTrading cycle is in progress (started and not yet returned).
C21_CyclesNeverOverlap == poller.running <= 1

\* ------------------------------------------------------ delayed trade claims
\* C22: the trades executed on a day, purchases plus sales, never exceed
\* safety.maxDailyTrades, whatever the interleaving of polling cycles and
\* delayed scheduled actions.
C22_DailyTradesWithinLimit ==
  GetTodaysTradeCount(buyingHistory, tradingHistory) <= MaxDailyTrades

\* C23: a delayed buy that executes a purchase runs at least
\* minimumGapBetweenBuys after the purchase executed before it.
C23_PurchasesMinGapApart ==
  (/\ lastCall.op = "runScheduled"
   /\ lastCall.arg.type = "buy"
   /\ lastCall.arg.logged
   /\ lastCall.arg.previousBuyTime # 0)
    => lastCall.arg.at - lastCall.arg.previousBuyTime >= MinimumGapBetweenBuys

\* C24: with randomized polling enabled, an evaluation (the initial one of
\* startAutomatedTrading or one started by the timer) is never started less
\* than minGapBetweenChecks after the evaluation before it.
C24_EvaluationsMinGapApart ==
  (/\ lastCall.op \in {"startAutomatedTrading", "pollTimer"}
   /\ poller.config.enabled
   /\ lastCall.arg.previous # {})
    => lastCall.arg.at - ValueOf(lastCall.arg.previous)
         >= poller.config.minGapBetweenChecks

\* -------------------------------------------------------------- alert claims
\* C25: once an alert has been sent for a drop or rise threshold, no second
\* alert is sent for the same threshold until its cooldown has elapsed, also
\* when analyses run concurrently.
C25_NoAlertWithinCooldown ==
  (lastCall.op = "sendThresholdAlert" /\ lastCall.arg.previous # {})
    => lastCall.arg.at - ValueOf(lastCall.arg.previous) >= AlertCooldown

\* ------------------------------------------------- ledger and baseline claims
\* C26: sellIndividualPayment(id, price) throws when no lot with that id is
\* active, and then changes no lot; otherwise exactly the first such lot
\* becomes sold, with the sale price recorded and profit = btcAmount * price -
\* gbpAmount, and every other lot is left as it was; so a lot that is sold is
\* never sold again.
C26_SellOnlyActiveLot ==
  [][ lastCall'.op = "sell"
      => LET M == {i \in 1 .. Len(payments) :
                     payments[i].id = lastCall'.arg /\ payments[i].status = "active"}
         IN  IF M = {}
               THEN ~lastCall'.ok /\ payments' = payments
               ELSE /\ lastCall'.ok
                    /\ \E i \in M :
                         payments' =
                           [payments EXCEPT
                              ![i] = [payments[i] EXCEPT
                                        !.status = "sold",
                                        !.soldPrice = lastCall'.result,
                                        !.profit = payments[i].btcAmount * lastCall'.result
                                                     - payments[i].gbpAmount]] ]_vars

\* C26 happens: a second sale of a lot that is sold has thrown, and the lot
\* keeps its sale price and its profit.
C26_Witness ==
  /\ lastCall.op = "sell" /\ ~lastCall.ok
  /\ \E i \in 1 .. Len(payments) :
       /\ payments[i].id = lastCall.arg
       /\ payments[i].status = "sold"
       /\ payments[i].soldPrice > 0
       /\ payments[i].profit = payments[i].btcAmount * payments[i].soldPrice
                                 - payments[i].gbpAmount

\* C27: once a lot is consumed or sold, no ledger operation (recordPayment,
\* cleanupPaymentsAfterSale, sellIndividualPayment) changes its btcAmount or
\* its status.
C27_ClosedLotsFrozen ==
  [][ \A i \in 1 .. Len(payments) :
        payments[i].status \in {"consumed", "sold"}
          => /\ i <= Len(payments')
             /\ payments'[i].btcAmount = payments[i].btcAmount
             /\ payments'[i].status = payments[i].status ]_vars

\* C27 happens: cleanupPaymentsAfterSale(0) has been repeated on a ledger
\* with a sold lot and a lot the first call consumed.
C27_Witness ==
  /\ lastCall.op = "cleanup" /\ lastCall.again /\ lastCall.arg = 0
  /\ \E i, j \in 1 .. Len(payments) :
       payments[i].status = "sold" /\ payments[j].status = "consumed"

C29_ResetStartsAfresh ==
  [][ /\ lastCall'.op = "reset"
           => profitTracker' = NewTracker(profitTracker.milestoneMode)
      /\ (lastCall.op = "reset" /\ lastCall'.op = "recordBalance")
           => /\ profitTracker'.initialBalance = {lastCall'.arg}
              /\ Len(profitTracker'.balanceHistory) = 1
              /\ profitTracker'.balanceHistory[1].profitLoss = 0 ]_vars

\* C29 happens: a tracker with a milestone recorded has been reset.
C29_Witness ==
  /\ lastCall.op = "reset"
  /\ lastCall.result > 0
  /\ profitTracker.balanceHistory = <<>>
  /\ MilestoneCount(profitTracker) = 0

\* C30: cleanupPaymentsAfterSale returns normally, and when the ledger has no
\* active lot or the balance B is at least the total amount of the active
\* lots, it changes no lot.
C30_CoveredLedgerUntouched ==
  [][ CleanupStep
      => /\ lastCall'.ok
         /\ (ActiveIdx(payments) = {} \/ lastCall'.arg >= TotalActive(payments))
              => payments' = payments ]_vars

\* C30 happens: the call with B equal to the total of two active lots.
C30_Witness ==
  /\ lastCall.op = "cleanup" /\ lastCall.ok
  /\ lastCall.result = 2
  /\ Cardinality(ActiveIdx(payments)) = 2
  /\ lastCall.arg = TotalActive(payments)

C35_NothingRunsAfterStop ==
  [][ /\ lastCall'.op = "pollTimer" => poller.monitoring
      /\ ~(/\ lastCall.op = "stopAutomatedTrading"
           /\ lastCall'.op = "runScheduled"
           /\ lastCall'.arg.logged) ]_vars

\* ------------------------------------------------------------ order claims
\* C32: dry run is the default: unless dryRun was set to false and the three
\* credentials are present, no request is sent to POST /orders, and an order
\* a buy or a sell produces is the simulated one, marked as simulated.
C32_DryRunByDefault ==
  ~(trading.setting = "false" /\ trading.credentials = AllCredentials)
    => /\ trading.posted = 0
       /\ \A o \in trading.order : o.simulated

\* C32 happens: with the credentials present and no dryRun setting, a buy has
\* returned its simulated order and nothing was sent.
C32_Witness ==
  /\ lastCall.op = "createBuyOrder" /\ lastCall.ok
  /\ trading.setting = "undefined"
  /\ trading.credentials = AllCredentials
  /\ trading.order = {Order("buy", TRUE)}
  /\ trading.posted = 0

\* ------------------------------------------------------ balance file claims
\* C39: no balance snapshot is lost: whatever the interleaving of the
\* recordBalance calls on the orchestrator's, the buyer's and the seller's
\* ProfitTracker, the balance file holds as many snapshots as were recorded
\* (the three trackers start empty and none is reset, so what was recorded
\* is what the three hold in memory).
C39_NoSnapshotLost ==
  Len(balanceFile) = Len(profitTracker.balanceHistory)
                       + Len(buyerTracker.balanceHistory)
                       + Len(sellerTracker.balanceHistory)

\* -------------------------------------------------- reconciliation claims
\* C33: after any recordings and reconciliations, cleanupPaymentsAfterSale(B)
\* with 0 <= B <= the sum of the active and partial lots leaves active and
\* partial lots that sum to B within the dust tolerance, also when an
\* earlier reconciliation has left a partial lot, and when B is 0.
C33_LiveSumIsBalance ==
  [][ (/\ CleanupStep
       /\ 0 <= lastCall'.arg
       /\ lastCall'.arg <= TotalLive(payments))
      => LET d == TotalLive(payments') - lastCall'.arg
         IN  -Dust <= d /\ d <= Dust ]_vars

\* C38: in an analysed cycle cleanupPaymentsAfterSale(current balance) is
\* invoked exactly when the tracked balance was positive and exceeds the
\* current one by more than the threshold; lastKnownBtcBalance becomes the
\* current balance; and an analysis that finds the balance of the analysis
\* before it unchanged or increased changes no lot.
C38_CleanupOnlyOnSignificantFall ==
  [][ lastCall'.op = "analyze"
      => LET current == lastCall'.arg.btc
             tracked == system.lastKnownBtcBalance
             fallen == tracked > 0 /\ tracked - current > BalanceDecreaseThreshold
         IN  /\ lastCall'.arg.cleaned <=> fallen
             /\ payments' = IF fallen
                              THEN CleanupPaymentsAfterSaleOp(payments, current)
                              ELSE payments
             /\ system'.lastKnownBtcBalance = current
             /\ (lastCall.op = "analyze" /\ current >= lastCall.arg.btc)
                  => payments' = payments ]_vars

\* C38 happens: the second analysis found the balance fallen by more than the
\* threshold, to a positive balance, and the reconciliation it invoked
\* consumed the lot (what is left of it is dust).
C38_Witness ==
  /\ lastCall.op = "analyze"
  /\ lastCall.arg.cleaned
  /\ lastCall.arg.btc > 0
  /\ system.lastKnownBtcBalance = lastCall.arg.btc
  /\ Len(payments) = 1
  /\ payments[1].status = "consumed"

\* C34: an action handed to scheduleAction while trading is not allowed stays
\* registered: after the refusing call it is pending or waits on a timer.
C34_RefusedProposalKept ==
  (/\ lastCall.op = "scheduleAction"
   /\ lastCall.arg.checked
   /\ ~lastCall.arg.allowed)
    => \/ \E a \in controller.pendingActions : a.id = lastCall.arg.id
       \/ \E t \in timers : t.id = lastCall.arg.id

\* C36: after a check in which the emergency override fired for a price, that
\* price is the last recorded price, and a check of the same price that
\* follows it does not fire the override again.
C36_OverrideRecordsItsPrice ==
  [][(GateChecked' /\ controller'.config.enabled /\ OverrideInEffect')
       => /\ controller'.lastRecordedPrice = {lastCall'.arg.price}
          /\ ~(/\ GateChecked /\ OverrideInEffect
               /\ lastCall.arg.price = lastCall'.arg.price)]_vars

\* C37: in fixed mode no milestone is recorded by a snapshot whose profit is
\* lower than the profit of the snapshot before it (two calls of recordBalance
\* in a row).
C37_NoMilestoneOnFallingProfit ==
  [][(/\ lastCall.op = "recordBalance"
      /\ lastCall'.op = "recordBalance"
      /\ profitTracker.milestoneMode = "fixed"
      /\ Len(profitTracker.balanceHistory) > 0
      /\ LET before == profitTracker.balanceHistory
             after == profitTracker'.balanceHistory
         IN  after[Len(after)].profitLoss < before[Len(before)].profitLoss)
       => MilestoneCount(profitTracker') = MilestoneCount(profitTracker)]_vars

====
